---- MODULE Spec2Model ----
(***************************************************************************)
(* Batch adapter runtime of asm4-catalog: the lifecycle of BaseAdapter.run *)
(* in the SDK runtime (tools/adapter_runtime/src/asm_adapter_runtime) and  *)
(* in the legacy runtime (tools/runtime/adapter_runtime/base.py), with the *)
(* Event Sink (EventWriter), the Heartbeat reporter and the signal pushes. *)
(*                                                                         *)
(* One behaviour is one call of run(): Init draws the environment of the   *)
(* call, every action is one step of the foreground path or of the         *)
(* background reporter thread, or the delivery of SIGTERM.                 *)
(***************************************************************************)
EXTENDS Integers, Sequences, FiniteSets, TLC

\* ---------------------------------------------------------------- bounds
MaxEmits == 1
MaxResources == 2
MaxTargets == 1
MaxTicks == 1
MaxSigterm == 1
MaxLines == 1
MaxWrites == 3
MaxOutput == 3
MaxInterval == 6
MaxCalls == 3
MaxPipe == 1

VARIABLES
    env,        \* the environment of the call: runtime, URLs, flags (never changes)
    preserveEnv,\* ADAPTER_PRESERVE_WORKDIR ("unread" until run() acts on it)
    outputEnv,  \* OUTPUT_URL ("unread" until FINALIZE acts on it)
    pc,         \* position of the foreground path inside run()
    workdir,    \* "none" | "present" | "removed": the tempfile.mkdtemp directory
    handler,    \* "previous" | "run": the process's SIGTERM disposition
    fetched,    \* a fetch (read_text / read_json / download) has been attempted
    targets,    \* len(targets) as loaded by _load_targets
    manifest,   \* cfg_doc inside _load_manifest: "unread", a ManifestKinds value, "built"
    cfg,        \* BatchConfig: [parameters, resources] (resources = how many are left)
    res,        \* the ResourceSpec being materialized, with what happened to it
    corrupt,    \* a downloaded resource's bytes do not hash to its declared sha256
    writer,     \* EventWriter: "none" | "open" | "closed"
    count,      \* EventWriter.count
    artifact,   \* the event types of the lines of events.jsonl.gz, as readable from disk
    closeOk,    \* whether EventWriter.close() returned without raising
    metrics,    \* Heartbeat.metrics
    hbStop,     \* Heartbeat._stop is set
    hbThread,   \* "none" | "waiting" | "sending" | "exited": the reporter thread
    ticks,      \* pushes made by the reporter thread
    signals,    \* every JSON document pushed (attempted) to the signal endpoint, in order
    pushLost,   \* some push did not reach the endpoint (transport failure or timeout)
    mainCalls,  \* how many times the collaborator was invoked
    adapter,    \* "none" until the collaborator is called, then the adapter class:
                \* "masscan" | "other" (SDK), "httpx" | "other" (legacy)
    argv,       \* what build_cmd returned in the legacy run: "unset" | "cmd" | "empty"
    produces,   \* the adapter's PRODUCES as emit reads it: "unread" | "empty" | "set"
    emits,      \* emit() calls made by the collaborator
    lines,      \* output lines of the child process still to be read (legacy command mode)
    success,    \* the local flag `success` of the SDK run
    failedIn,   \* the step whose exception reached run's `except Exception`
    pending,    \* "none" | "return" | "SystemExit": what the try statement is completing with
    retval,     \* the value of the pending `return`
    sha,        \* the checksum computed in FINALIZE ("none" before)
    stored,     \* the bytes at the output URL ("none" before the upload)
    terms,      \* SIGTERMs delivered
    termAt,     \* where the last one interrupted run(): "none" | "setup" | "try" | "finally"
    outcome     \* how run() ended: "running" | "return" | "raise" | "SystemExit"

vars == <<env, preserveEnv, outputEnv, pc, workdir, handler, fetched, targets, manifest, cfg, res, writer,
          count, artifact, closeOk, metrics, hbStop, hbThread, ticks, signals,
          mainCalls, adapter, argv, produces, emits, lines, success, failedIn, pending, retval,
          sha, stored, terms, termAt, corrupt, outcome, pushLost>>

\* groups used in UNCHANGED
inputVars == <<env, preserveEnv, outputEnv>>
loadVars == <<fetched, targets, manifest, cfg, res, corrupt>>
sinkVars == <<writer, count, artifact, closeOk>>
pushVars == <<signals, pushLost>>
hbVars == <<metrics, hbStop, hbThread, ticks>>
mainVars == <<mainCalls, adapter, argv, produces, emits, lines>>
finVars == <<sha, stored>>
ctlVars == <<success, failedIn, pending, retval, outcome>>
sigVars == <<terms, termAt>>

\* ------------------------------------------------------------ environment
Runtimes == {"sdk", "legacy"}
UrlValues == {"absent", "empty", "set"}       \* os.getenv: None, "", a URL
FlagValues == {"unset", "1", "on"}            \* ADAPTER_PRESERVE_WORKDIR
EventTypes == {"produced", "other"}           \* in PRODUCES / not in PRODUCES
NoRes == [sha |-> "none", extract |-> FALSE, extracted |-> FALSE, state |-> "idle"]
ShaValues == {"none", "empty", "match", "mismatch"}   \* ResourceSpec.sha256 against the digest
ManifestKinds == {"nourl", "fetchfail", "badjson", "falsy", "nonobject", "object"}

\* env_flag: value.strip().lower() in {"1","true","yes","on"}
env_flag(value) == value \in {"1", "on"}

\* the legacy run's own test of ADAPTER_PRESERVE_WORKDIR: {"1","true","yes"}
LegacyPreserve(value) == value \in {"1"}

\* `not inputs_url`
Missing(url) == url \in {"absent", "empty"}

\* run() is called without a settings argument, as cli.py and the tests call it:
\* the settings are what RuntimeSettings.from_env / os.getenv read
Environments ==
    [rt : Runtimes, inputsUrl : UrlValues, signalUrl : BOOLEAN]

InitMetrics(rt) ==
    [phase |-> IF rt = "sdk" THEN "init" ELSE "start",
     processed_targets |-> 0, emitted_docs |-> 0]

\* nothing has happened yet: the values every variable but env and pc starts with
InitState ==
    /\ preserveEnv = "unread"
    /\ outputEnv = "unread"
    /\ workdir = "none"
    /\ handler = "previous"
    /\ fetched = FALSE
    /\ targets = 0
    /\ manifest = "unread"
    /\ cfg = [parameters |-> "empty", resources |-> 0]
    /\ res = NoRes
    /\ writer = "none"
    /\ count = 0
    /\ artifact = <<>>
    /\ closeOk = TRUE
    /\ metrics = InitMetrics(env.rt)
    /\ hbStop = FALSE
    /\ hbThread = "none"
    /\ ticks = 0
    /\ signals = <<>>
    /\ pushLost = FALSE
    /\ mainCalls = 0
    /\ adapter = "none"
    /\ argv = "unset"
    /\ produces = "unread"
    /\ emits = 0
    /\ lines = 0
    /\ success = FALSE
    /\ failedIn = "none"
    /\ pending = "none"
    /\ retval = -1
    /\ sha = "none"
    /\ stored = "none"
    /\ terms = 0
    /\ termAt = "none"
    /\ corrupt = FALSE
    /\ outcome = "running"

Init ==
    /\ env \in Environments
    /\ pc = IF env.rt = "sdk" THEN "resolve" ELSE "L_resolve"
    /\ InitState

\* ---------------------------------------------------------------- helpers
\* post_json: nothing is sent without a URL; a failed POST is swallowed
post_json(url, payload) == IF url THEN Append(signals, payload) ELSE signals

\* what requests.post does with a push: it returns, raises a transport error
\* (connection refused, ...) or raises a timeout; without a URL nothing is sent
PushOutcomes(url) == IF url THEN {"ok", "failed", "timeout"} ELSE {"unsent"}

\* the push did not reach the endpoint
Lost(o) == o \in {"failed", "timeout"}

\* mutant of PushRaises: post_json lets the exception of requests.post through
PushRaises_Unswallowed(o) == Lost(o)

\* post_json: `except Exception: return`, nothing a push raises leaves post_json
PushRaises(o) == FALSE

\* Heartbeat.send: {**base_payload, **metrics, kind: progress@v1, at}
ProgressPayload ==
    [kind |-> "progress", phase |-> metrics.phase,
     processed_targets |-> metrics.processed_targets,
     emitted_docs |-> metrics.emitted_docs]

\* emit_error: {**base_payload, kind: progress@v1, phase: error, error, at}
ErrorPayload == [kind |-> "progress", phase |-> "error", error |-> TRUE]

\* results_payload of _finalize_success / the legacy run
ResultsPayload == [kind |-> "results_ready", doc_count |-> count, events_sha256 |-> sha]

\* sha256_file over the artifact: an injective digest of the content
sha256_file(content) == <<"sha256", content>>

\* the prefixes of a file's content: what survives a write that did not complete
Prefixes(s) == { SubSeq(s, 1, k) : k \in 0..Len(s) }


\* the metrics map with one key assigned
SetPhase(p) == [metrics EXCEPT !.phase = p]

\* ================================================================ SDK runtime
\* mutant of ConfigError: the test is `inputs_url is None`, so "" passes
ConfigError_NoneOnly(e) == e.inputsUrl = "absent"

\* RuntimeSettings.from_env: `if not inputs_url: raise RuntimeError`
ConfigError(e) == Missing(e.inputsUrl)

\* mutant of ShaMismatch: the digest is never compared
ShaMismatch_Skipped(s) == FALSE

\* spec.sha256 is set and differs from the digest of the downloaded file
ShaMismatch(s) == s \notin {"none", "empty"} /\ s # "match"

\* BatchConfig.from_manifest_doc raises on a document without .get
ManifestRaises(kind) == kind = "nonobject"

\* the configurations a manifest of a given kind resolves to
ManifestConfigs(kind) ==
    IF kind = "object"
    THEN [parameters : {"empty", "given"}, resources : 0..MaxResources]
    ELSE {[parameters |-> "empty", resources |-> 0]}

\* an exception raised inside the try body of the SDK run
SdkRaise(stage) ==
    /\ pc' = "except_exception"
    /\ failedIn' = stage

\* run(): settings resolution, mkdtemp, resources dir
SdkResolve ==
    /\ pc = "resolve"
    /\ IF ConfigError(env)
       THEN /\ pc' = "done"
            /\ outcome' = "return"
            /\ retval' = 2
            /\ UNCHANGED workdir
       ELSE /\ workdir' = "present"
            /\ pc' = "install_handler"
            /\ UNCHANGED <<outcome, retval>>
    /\ UNCHANGED <<inputVars, handler, loadVars, sinkVars, hbVars, pushVars, mainVars,
                   success, failedIn, pending, finVars, sigVars>>

\* previous_handler = signal.signal(SIGTERM, _handle_sigterm)
SdkInstallHandler ==
    /\ pc = "install_handler"
    /\ handler' = "run"
    /\ pc' = "setup"
    /\ UNCHANGED <<inputVars, workdir, loadVars, sinkVars, hbVars, pushVars, mainVars,
                   ctlVars, finVars, sigVars>>

\* signal payload, Heartbeat object, locals; still outside the try statement
SdkSetup ==
    /\ pc = "setup"
    /\ pc' = "load_targets"
    /\ UNCHANGED <<inputVars, workdir, handler, loadVars, sinkVars, hbVars, pushVars,
                   mainVars, ctlVars, finVars, sigVars>>

\* targets = self._load_targets(runtime.inputs_url)
SdkLoadTargets ==
    /\ pc = "load_targets"
    /\ fetched' = TRUE
    /\ \E err \in BOOLEAN :
         IF ~err
         THEN /\ \E n \in 0..MaxTargets : targets' = n
              /\ pc' = "load_manifest"
              /\ UNCHANGED failedIn
         ELSE /\ SdkRaise("load_targets")
              /\ UNCHANGED targets
    /\ UNCHANGED <<inputVars, workdir, handler, manifest, cfg, res, corrupt, sinkVars, hbVars,
                   pushVars, mainVars, success, pending, retval, outcome, finVars, sigVars>>

\* _load_manifest: cfg_doc = read_json(resman_url), {} without a URL or on any exception
SdkFetchManifest ==
    /\ pc = "load_manifest"
    /\ \E kind \in ManifestKinds :
         /\ manifest' = kind
         /\ fetched' = (fetched \/ kind # "nourl")
    /\ pc' = "build_config"
    /\ UNCHANGED <<inputVars, workdir, handler, targets, cfg, res, corrupt, sinkVars, hbVars,
                   pushVars, mainVars, ctlVars, finVars, sigVars>>

\* _load_manifest: return BatchConfig.from_manifest_doc(cfg_doc), outside its try;
\* then run() fills in tool, version and resources_dir
SdkBuildConfig ==
    /\ pc = "build_config"
    /\ manifest' = "built"
    /\ IF ManifestRaises(manifest)
       THEN /\ SdkRaise("load_manifest")
            /\ UNCHANGED cfg
       ELSE /\ cfg' \in ManifestConfigs(manifest)
            /\ pc' = "prepare_resources"
            /\ UNCHANGED failedIn
    /\ UNCHANGED <<inputVars, workdir, handler, fetched, targets, res, corrupt, sinkVars, hbVars,
                   pushVars, mainVars, success, pending, retval, outcome, finVars, sigVars>>

\* for resource in cfg.resources: self._prepare_resource(resource, resources_dir)
\* materialize_resource downloads and, if asked, extracts; the digest is compared after
SdkPrepareResource ==
    /\ pc = "prepare_resources"
    /\ IF cfg.resources = 0
       THEN /\ pc' = "create_writer"
            /\ UNCHANGED <<fetched, cfg, res, corrupt, failedIn>>
       ELSE /\ fetched' = TRUE
            /\ \E s \in ShaValues, x \in BOOLEAN, dlErr \in BOOLEAN, exErr \in BOOLEAN :
                 /\ corrupt' = (corrupt \/ (~dlErr /\ s = "mismatch"))
                 /\ IF dlErr
                    THEN /\ res' = [sha |-> s, extract |-> x, extracted |-> FALSE,
                                    state |-> "download_failed"]
                         /\ SdkRaise("materialize")
                         /\ UNCHANGED cfg
                    ELSE IF x /\ exErr
                    THEN /\ res' = [sha |-> s, extract |-> x, extracted |-> FALSE,
                                    state |-> "extract_failed"]
                         /\ SdkRaise("materialize")
                         /\ UNCHANGED cfg
                    ELSE IF ShaMismatch(s)
                    THEN /\ res' = [sha |-> s, extract |-> x, extracted |-> x,
                                    state |-> "mismatch"]
                         /\ SdkRaise("sha256")
                         /\ UNCHANGED cfg
                    ELSE /\ res' = NoRes
                         /\ cfg' = [cfg EXCEPT !.resources = @ - 1]
                         /\ UNCHANGED <<pc, failedIn>>
    /\ UNCHANGED <<inputVars, workdir, handler, targets, manifest, sinkVars, hbVars,
                   pushVars, mainVars, success, pending, retval, outcome, finVars, sigVars>>

\* writer = EventWriter(events_path, context=...)
SdkCreateWriter ==
    /\ pc = "create_writer"
    /\ \E err \in BOOLEAN :
         IF ~err
         THEN /\ writer' = "open"
              /\ count' = 0
              /\ artifact' = <<>>
              /\ pc' = "hb_start"
              /\ UNCHANGED failedIn
         ELSE /\ SdkRaise("create_writer")
              /\ UNCHANGED <<writer, count, artifact>>
    /\ UNCHANGED <<inputVars, workdir, handler, loadVars, closeOk, hbVars, pushVars,
                   mainVars, success, pending, retval, outcome, finVars, sigVars>>

\* Heartbeat.start: a thread only with a URL and only once
HeartbeatStart == IF env.signalUrl /\ hbThread = "none" THEN "waiting" ELSE hbThread

\* hb.metrics.update({...}); hb.start()
SdkHbStart ==
    /\ pc = "hb_start"
    /\ metrics' = [phase |-> "start", processed_targets |-> targets, emitted_docs |-> 0]
    /\ hbThread' = HeartbeatStart
    /\ pc' = "phase_main"
    /\ UNCHANGED <<inputVars, workdir, handler, loadVars, sinkVars, hbStop, ticks,
                   pushVars, mainVars, ctlVars, finVars, sigVars>>

\* the adapter classes of the SDK: a BaseAdapter subclass with its own main, a
\* WrapperAdapter over some wrapper, and MasscanAdapter(WrapperAdapter)
AdapterKinds == {"custom", "wrapper", "masscan"}

\* emit = self._build_emitter(...); phase = main; self.main(...) is entered:
\* the adapter class overrides main itself, or is a WrapperAdapter
SdkPhaseMain ==
    /\ pc = "phase_main"
    /\ metrics' = SetPhase("main")
    /\ mainCalls' = mainCalls + 1
    /\ \E kind \in AdapterKinds :
         /\ adapter' = IF kind = "masscan" THEN "masscan" ELSE "other"
         /\ pc' = IF kind = "custom" THEN "main" ELSE "W_build_cmd"
    /\ UNCHANGED <<inputVars, workdir, handler, loadVars, sinkVars, hbStop, hbThread,
                   ticks, pushVars, argv, produces, emits, lines, ctlVars, finVars, sigVars>>

\* PRODUCES is a class attribute that only emit reads: the model draws it at the
\* first emit and keeps it from then on
ProducesRead(p) == IF p = "unread" THEN {"empty", "set"} ELSE {p}

\* mutant of Filtered: emit writes every event type
Filtered_Never(p, t) == FALSE

\* the emitter drops an event type outside a non-empty PRODUCES
Filtered(p, t) == p = "set" /\ t # "produced"

\* the collaborator calls emit(model): filter, writer.emit (write, count += 1)
MainEmit ==
    /\ pc = "main"
    /\ emits < MaxEmits
    /\ emits' = emits + 1
    /\ \E p \in ProducesRead(produces), t \in EventTypes, wrErr \in BOOLEAN :
         /\ produces' = p
         /\ IF Filtered(p, t)
            THEN UNCHANGED <<pc, artifact, count, failedIn>>
            ELSE IF ~wrErr
            THEN /\ artifact' = Append(artifact, t)
                 /\ count' = count + 1
                 /\ pc' = "emit_metric"
                 /\ UNCHANGED failedIn
            ELSE /\ SdkRaise("main")
                 /\ UNCHANGED <<artifact, count>>
    /\ UNCHANGED <<inputVars, workdir, handler, loadVars, writer, closeOk, hbVars,
                   pushVars, mainCalls, adapter, argv, lines, success, pending, retval,
                   outcome, finVars, sigVars>>

\* hb.metrics["emitted_docs"] = writer.count
\* _build_emitter: hb.metrics["emitted_docs"] = writer.count, after writer.emit
EmittedDocs_Ahead(c) == c + 1

EmittedDocs(c) == c

MainEmitMetric ==
    /\ pc = "emit_metric"
    /\ metrics' = [metrics EXCEPT !.emitted_docs = EmittedDocs(count)]
    /\ pc' = "main"
    /\ UNCHANGED <<inputVars, workdir, handler, loadVars, sinkVars, hbStop, hbThread,
                   ticks, pushVars, mainVars, ctlVars, finVars, sigVars>>

\* the collaborator's main returns
MainReturn ==
    /\ pc = "main"
    /\ pc' = "phase_finalize"
    /\ UNCHANGED <<inputVars, workdir, handler, loadVars, sinkVars, hbVars, pushVars,
                   mainVars, ctlVars, finVars, sigVars>>

\* the collaborator's main raises
MainRaise ==
    /\ pc = "main"
    /\ SdkRaise("main")
    /\ UNCHANGED <<inputVars, workdir, handler, loadVars, sinkVars, hbVars, pushVars,
                   mainVars, success, pending, retval, outcome, finVars, sigVars>>

\* ------------------------------------------- WrapperAdapter.main (command mode)
\* params, hb.metrics["processed_targets"] = len(targets), cmd = wrapper.build_cmd(...);
\* with a command, spawn_and_stream sets the phase to exec and starts the process
\* MasscanWrapper.build_cmd: `if not targets: return None`, otherwise a command
MasscanBuildsCmd_Always(n) == TRUE

MasscanBuildsCmd(n) == n > 0

\* the outcomes <<cmd, err>> of wrapper.build_cmd followed by Popen: a command
\* that starts (<<TRUE, FALSE>>), one that Popen fails on (<<TRUE, TRUE>>), no
\* command (<<FALSE, FALSE>>), or build_cmd raising (<<FALSE, TRUE>>); the
\* masscan wrapper returns None for no targets before it touches any file
WrapperBuilds(kind, n) ==
    IF kind # "masscan" THEN BOOLEAN \X BOOLEAN
    ELSE IF MasscanBuildsCmd(n) THEN {<<TRUE, FALSE>>, <<TRUE, TRUE>>, <<FALSE, TRUE>>}
    ELSE {<<FALSE, FALSE>>}

\* what wrapper.stream does with a line; MasscanWrapper.stream ignores it
WrapperStream(kind) == IF kind = "masscan" THEN {"skip"} ELSE {"skip", "emit", "raise"}

\* WrapperAdapter.main: hb.metrics["processed_targets"] = len(targets)
WrapperProcessedTargets_Reset(n) == 0

WrapperProcessedTargets(n) == n

WrapBuildCmd ==
    /\ pc = "W_build_cmd"
    /\ \E cmd \in BOOLEAN, err \in BOOLEAN :
         /\ <<cmd, err>> \in WrapperBuilds(adapter, targets)
         /\ metrics' = [metrics EXCEPT !.processed_targets = WrapperProcessedTargets(targets),
                                        !.phase = IF cmd THEN "exec" ELSE @]
         /\ IF err
            THEN /\ SdkRaise("main")       \* build_cmd or subprocess.Popen raised
                 /\ UNCHANGED lines
            ELSE IF cmd
            THEN /\ \E n \in 0..MaxLines : lines' = n
                 /\ pc' = "W_stream"
                 /\ UNCHANGED failedIn
            ELSE /\ pc' = IF adapter = "masscan" THEN "phase_finalize" ELSE "main"
                 /\ UNCHANGED <<lines, failedIn>>
    /\ UNCHANGED <<inputVars, workdir, handler, loadVars, sinkVars, hbStop, hbThread,
                   ticks, pushVars, mainCalls, adapter, argv, produces, emits, success, pending, retval,
                   outcome, finVars, sigVars>>

\* spawn_and_stream: `for raw_line in process.stdout: on_line(...)` inside a try
\* with only a finally clause (process.wait()): wrapper.stream handles the line and
\* returns, calls emit, or raises; what it raises leaves spawn_and_stream and main
WrapStreamLine ==
    /\ pc = "W_stream"
    /\ lines > 0
    /\ lines' = lines - 1
    /\ \E r \in WrapperStream(adapter), p \in ProducesRead(produces),
          t \in EventTypes, wrErr \in BOOLEAN :
         /\ emits' = IF r = "emit" THEN emits + 1 ELSE emits
         /\ produces' = IF r = "emit" THEN p ELSE produces
         /\ IF r = "skip" \/ (r = "emit" /\ Filtered(p, t))
            THEN UNCHANGED <<pc, artifact, count, failedIn>>
            ELSE IF r = "emit" /\ ~wrErr
            THEN /\ artifact' = Append(artifact, t)
                 /\ count' = count + 1
                 /\ pc' = "W_stream_metric"
                 /\ UNCHANGED failedIn
            ELSE /\ SdkRaise("stream")
                 /\ UNCHANGED <<artifact, count>>
    /\ UNCHANGED <<inputVars, workdir, handler, loadVars, writer, closeOk, hbVars,
                   pushVars, mainCalls, adapter, argv, success, pending, retval, outcome, finVars,
                   sigVars>>

\* emit: hb.metrics["emitted_docs"] = writer.count (while streaming)
WrapStreamMetric ==
    /\ pc = "W_stream_metric"
    /\ metrics' = [metrics EXCEPT !.emitted_docs = EmittedDocs(count)]
    /\ pc' = "W_stream"
    /\ UNCHANGED <<inputVars, workdir, handler, loadVars, sinkVars, hbStop, hbThread,
                   ticks, pushVars, mainVars, ctlVars, finVars, sigVars>>

\* the output ended: process.wait(), the exit code is recorded; then
\* wrapper.postprocess_files(workdir, emit) and wrapper.artifacts(workdir) run as
\* collaborator code holding emit
WrapStreamEnd ==
    /\ pc = "W_stream"
    /\ lines = 0
    /\ pc' = "main"
    /\ UNCHANGED <<inputVars, workdir, handler, loadVars, sinkVars, hbVars, pushVars,
                   mainVars, ctlVars, finVars, sigVars>>

\* hb.metrics["phase"] = "finalize"; success = True
SdkPhaseFinalize ==
    /\ pc = "phase_finalize"
    /\ metrics' = SetPhase("finalize")
    /\ success' = TRUE
    /\ pc' = "return_zero"
    /\ UNCHANGED <<inputVars, workdir, handler, loadVars, sinkVars, hbStop, hbThread,
                   ticks, pushVars, mainVars, failedIn, pending, retval, outcome,
                   finVars, sigVars>>

\* return 0: the finally clause runs with the return pending
SdkReturnZero ==
    /\ pc = "return_zero"
    /\ pending' = "return"
    /\ retval' = 0
    /\ pc' = "fin_hb_stop"
    /\ UNCHANGED <<inputVars, workdir, handler, loadVars, sinkVars, hbVars, pushVars,
                   mainVars, success, failedIn, outcome, finVars, sigVars>>

\* except Exception: emit_error(...); return 1
SdkExceptException ==
    /\ pc = "except_exception"
    /\ signals' = post_json(env.signalUrl, ErrorPayload)
    /\ \E o \in PushOutcomes(env.signalUrl) :
         /\ pushLost' = (pushLost \/ Lost(o))
         /\ IF PushRaises(o)
            THEN /\ pending' = "raise"      \* raised inside the except clause
                 /\ UNCHANGED retval
            ELSE /\ pending' = "return"
                 /\ retval' = 1
    /\ pc' = "fin_hb_stop"
    /\ UNCHANGED <<inputVars, workdir, handler, loadVars, sinkVars, hbVars, mainVars,
                   success, failedIn, outcome, finVars, sigVars>>

\* ---------------------------------------------------- the finally clause
\* Heartbeat.stop: self._stop.set()
FinHbStop ==
    /\ pc = "fin_hb_stop"
    /\ hbStop' = TRUE
    /\ pc' = "fin_hb_send"
    /\ UNCHANGED <<inputVars, workdir, handler, loadVars, sinkVars, metrics, hbThread,
                   ticks, pushVars, mainVars, ctlVars, finVars, sigVars>>

\* mutant of FinHbSend: stop() sends the final heartbeat only if start() had
\* created the thread
FinHbSend_OnlyIfStarted ==
    /\ pc = "fin_hb_send"
    /\ signals' = IF hbThread # "none" THEN post_json(env.signalUrl, ProgressPayload)
                  ELSE signals
    /\ UNCHANGED pushLost
    /\ pc' = "fin_writer_close"
    /\ UNCHANGED <<inputVars, workdir, handler, loadVars, sinkVars, hbVars, mainVars,
                   ctlVars, finVars, sigVars>>

\* Heartbeat.stop: if self.url: self.send()
FinHbSend ==
    /\ pc = "fin_hb_send"
    /\ signals' = post_json(env.signalUrl, ProgressPayload)
    /\ \E o \in PushOutcomes(env.signalUrl) : pushLost' = (pushLost \/ Lost(o))
    /\ pc' = "fin_writer_close"
    /\ UNCHANGED <<inputVars, workdir, handler, loadVars, sinkVars, hbVars, mainVars,
                   ctlVars, finVars, sigVars>>

\* if writer is not None: try: writer.close() except Exception: pass
\* a close that raises leaves on disk what had been flushed
FinWriterClose ==
    /\ pc = "fin_writer_close"
    /\ IF writer = "none"
       THEN UNCHANGED sinkVars
       ELSE \E err \in BOOLEAN :
              /\ writer' = "closed"
              /\ closeOk' = ~err
              /\ artifact' \in (IF ~err THEN {artifact} ELSE Prefixes(artifact))
              /\ UNCHANGED count
    /\ pc' = "fin_restore"
    /\ UNCHANGED <<inputVars, workdir, handler, loadVars, hbVars, pushVars, mainVars,
                   ctlVars, finVars, sigVars>>

\* mutant of FinalizeDue: the success flag is not consulted
FinalizeDue_NoSuccess == writer # "none"

\* `if success and writer is not None` after the handler is restored
FinalizeDue == success /\ writer # "none"

\* signal.signal(signal.SIGTERM, previous_handler)
FinRestore ==
    /\ pc = "fin_restore"
    /\ handler' = "previous"
    /\ pc' = IF FinalizeDue THEN "fin_sha" ELSE "fin_rmtree"
    /\ UNCHANGED <<inputVars, workdir, loadVars, sinkVars, hbVars, pushVars, mainVars,
                   ctlVars, finVars, sigVars>>

\* mutant of FinSha: results_ready is sent without the upload
FinSha_NoUpload ==
    /\ pc = "fin_sha"
    /\ sha' = sha256_file(artifact)
    /\ outputEnv' \in UrlValues
    /\ pc' = "fin_results_ready"
    /\ UNCHANGED <<env, preserveEnv, workdir, handler, loadVars, sinkVars, hbVars, pushVars,
                   mainVars, ctlVars, stored, sigVars>>

\* _finalize_success: sha = sha256_file(events_path)
FinSha ==
    /\ pc = "fin_sha"
    /\ sha' = sha256_file(artifact)
    /\ outputEnv' \in UrlValues
    /\ pc' = IF Missing(outputEnv') THEN "fin_results_ready" ELSE "fin_upload"
    /\ UNCHANGED <<env, preserveEnv, workdir, handler, loadVars, sinkVars, hbVars, pushVars,
                   mainVars, ctlVars, stored, sigVars>>

\* upload_file: shutil.copyfileobj(src, dst_handle) for a file URL, otherwise
\* requests.put(url, data=src): the bytes at the URL are the file's bytes
upload_file_Truncated(content) == <<>>

upload_file(content) == content

\* _finalize_success: upload_file(...); its exception leaves run() through the
\* finally clause, replacing the pending return
FinUpload ==
    /\ pc = "fin_upload"
    /\ \E err \in BOOLEAN :
         IF ~err
         THEN /\ stored' = upload_file(artifact)
              /\ pc' = "fin_results_ready"
              /\ UNCHANGED <<failedIn, outcome>>
         ELSE /\ failedIn' = "upload"
              /\ outcome' = "raise"
              /\ pc' = "done"
              /\ UNCHANGED stored
    /\ UNCHANGED <<inputVars, workdir, handler, loadVars, sinkVars, hbVars, pushVars,
                   mainVars, success, pending, retval, sha, sigVars>>

\* _finalize_success: emit_results_ready(runtime.signal_url, results_payload)
FinResultsReady ==
    /\ pc = "fin_results_ready"
    /\ signals' = post_json(env.signalUrl, ResultsPayload)
    /\ \E o \in PushOutcomes(env.signalUrl) :
         /\ pushLost' = (pushLost \/ Lost(o))
         /\ IF PushRaises(o)
            THEN /\ outcome' = "raise"      \* raised inside the finally clause
                 /\ pc' = "done"
            ELSE /\ pc' = "fin_rmtree"
                 /\ UNCHANGED outcome
    /\ UNCHANGED <<inputVars, workdir, handler, loadVars, sinkVars, hbVars, mainVars,
                   success, failedIn, pending, retval, finVars, sigVars>>

\* runtime.preserve_workdir or should_preserve_workdir(): both are env_flag of
\* ADAPTER_PRESERVE_WORKDIR, whose value the model draws where it decides something
Preserved(flag) ==
    LET preserve_workdir == env_flag(flag)      \* RuntimeSettings.from_env
        should_preserve_workdir == env_flag(flag)
    IN  preserve_workdir \/ should_preserve_workdir

\* if not preserved: safe_rmtree(workdir); then the pending return or exception
FinRmtree ==
    /\ pc = "fin_rmtree"
    /\ preserveEnv' \in FlagValues
    /\ workdir' = IF Preserved(preserveEnv') THEN workdir ELSE "removed"
    /\ outcome' = pending
    /\ pc' = "done"
    /\ UNCHANGED <<env, outputEnv, handler, loadVars, sinkVars, hbVars, pushVars, mainVars,
                   success, failedIn, pending, retval, finVars, sigVars>>

\* ------------------------------------------------------------- SIGTERM
\* positions inside the try body and its except clause: SystemExit goes
\* through `except SystemExit: raise` into the finally clause
TryBody == {"load_targets", "load_manifest", "build_config", "prepare_resources", "create_writer",
            "hb_start", "phase_main", "main", "emit_metric", "W_build_cmd",
            "W_stream", "W_stream_metric", "phase_finalize",
            "return_zero", "except_exception"}

\* positions inside the finally clause while the run's handler is installed
FinallyBody == {"fin_hb_stop", "fin_hb_send", "fin_writer_close", "fin_restore"}

\* _handle_sigterm raises SystemExit(2) in the foreground path
Sigterm ==
    /\ handler = "run"
    /\ terms < MaxSigterm
    /\ pc \in {"setup"} \cup TryBody \cup FinallyBody
    /\ terms' = terms + 1
    /\ termAt' = (IF pc \in TryBody THEN "try" ELSE IF pc = "setup" THEN "setup"
                  ELSE "finally")
    /\ IF pc \in TryBody
       THEN /\ pending' = "SystemExit"
            /\ pc' = "fin_hb_stop"
            /\ UNCHANGED <<outcome, signals>>
       ELSE \* outside the try body nothing catches it: run() is left at once
            /\ outcome' = "SystemExit"
            /\ pc' = "done"
            /\ UNCHANGED pending
            \* a push in flight may or may not have reached the endpoint
            /\ signals' \in (IF pc = "fin_hb_send"
                             THEN {signals, post_json(env.signalUrl, ProgressPayload)}
                             ELSE {signals})
    /\ UNCHANGED <<inputVars, workdir, handler, loadVars, sinkVars, hbVars, mainVars,
                   success, failedIn, retval, finVars, pushLost>>

\* ------------------------------------------------ the reporter thread (SDK)
\* Heartbeat._run: self._stop.wait(interval) timed out
HbWake ==
    /\ env.rt = "sdk"
    /\ hbThread = "waiting"
    /\ ~hbStop
    /\ ticks < MaxTicks
    /\ hbThread' = "sending"
    /\ UNCHANGED <<inputVars, pc, workdir, handler, loadVars, sinkVars, metrics, hbStop,
                   ticks, pushVars, mainVars, ctlVars, finVars, sigVars>>

\* mutant of HbSend: the reporter refreshes emitted_docs from the sink before it sends
HbSend_RefreshesMetric ==
    /\ env.rt = "sdk"
    /\ hbThread = "sending"
    /\ metrics' = [metrics EXCEPT !.emitted_docs = count]
    /\ signals' = post_json(env.signalUrl, ProgressPayload)
    /\ ticks' = ticks + 1
    /\ \E o \in PushOutcomes(env.signalUrl) :
         /\ pushLost' = (pushLost \/ Lost(o))
         /\ hbThread' = IF PushRaises(o) THEN "exited" ELSE "waiting"
    /\ UNCHANGED <<inputVars, pc, workdir, handler, loadVars, sinkVars, hbStop,
                   mainVars, ctlVars, finVars, sigVars>>

\* Heartbeat._run: self.send()
HbSend ==
    /\ env.rt = "sdk"
    /\ hbThread = "sending"
    /\ signals' = post_json(env.signalUrl, ProgressPayload)
    /\ ticks' = ticks + 1
    /\ \E o \in PushOutcomes(env.signalUrl) :
         /\ pushLost' = (pushLost \/ Lost(o))
         /\ hbThread' = IF PushRaises(o) THEN "exited" ELSE "waiting"
    /\ UNCHANGED <<inputVars, pc, workdir, handler, loadVars, sinkVars, metrics, hbStop,
                   mainVars, ctlVars, finVars, sigVars>>

\* Heartbeat._run: the wait returns True once _stop is set and the loop ends
HbExit ==
    /\ env.rt = "sdk"
    /\ hbThread = "waiting"
    /\ hbStop
    /\ hbThread' = "exited"
    /\ UNCHANGED <<inputVars, pc, workdir, handler, loadVars, sinkVars, metrics, hbStop,
                   ticks, pushVars, mainVars, ctlVars, finVars, sigVars>>

\* ============================================================= legacy runtime
\* ToolExitCodes: proc.returncode or 0
ToolExitCodes == {0, 1}

\* an exception raised inside the outer try of the legacy run
LegRaise(stage) ==
    /\ pc' = "L_except"
    /\ failedIn' = stage

\* run(): os.getenv reads; `if not inputs_url: ... return 2`; mkdtemp, resources dir
LegResolve ==
    /\ pc = "L_resolve"
    /\ IF Missing(env.inputsUrl)
       THEN /\ pc' = "done"
            /\ outcome' = "return"
            /\ retval' = 2
            /\ UNCHANGED workdir
       ELSE /\ workdir' = "present"
            /\ pc' = "L_load_targets"
            /\ UNCHANGED <<outcome, retval>>
    /\ UNCHANGED <<inputVars, handler, loadVars, sinkVars, hbVars, pushVars, mainVars,
                   success, failedIn, pending, finVars, sigVars>>

\* raw_inputs = _http_get_text(inputs_url); targets = [...]
LegLoadTargets ==
    /\ pc = "L_load_targets"
    /\ fetched' = TRUE
    /\ \E err \in BOOLEAN :
         IF ~err
         THEN /\ \E n \in 0..MaxTargets : targets' = n
              /\ pc' = "L_load_manifest"
              /\ UNCHANGED failedIn
         ELSE /\ LegRaise("load_targets")
              /\ UNCHANGED targets
    /\ UNCHANGED <<inputVars, workdir, handler, manifest, cfg, res, corrupt, sinkVars, hbVars,
                   pushVars, mainVars, success, pending, retval, outcome, finVars, sigVars>>

\* cfg = BatchConfig(...); with a manifest URL, from_manifest_doc(_http_get_json(...))
\* inside one try whose except only warns
LegLoadManifest ==
    /\ pc = "L_load_manifest"
    /\ \E kind \in ManifestKinds :
         /\ fetched' = (fetched \/ kind # "nourl")
         /\ cfg' \in ManifestConfigs(kind)
    /\ manifest' = "built"
    /\ pc' = "L_prepare_resources"
    /\ UNCHANGED <<inputVars, workdir, handler, targets, res, corrupt, sinkVars, hbVars, pushVars,
                   mainVars, ctlVars, finVars, sigVars>>

\* for r in cfg.resources: download while hashing, compare, then extract
LegPrepareResource ==
    /\ pc = "L_prepare_resources"
    /\ IF cfg.resources = 0
       THEN /\ pc' = "L_create_writer"
            /\ UNCHANGED <<fetched, cfg, res, corrupt, failedIn>>
       ELSE /\ fetched' = TRUE
            /\ \E s \in ShaValues, x \in BOOLEAN, dlErr \in BOOLEAN, exErr \in BOOLEAN :
                 /\ corrupt' = (corrupt \/ (~dlErr /\ s = "mismatch"))
                 /\ IF dlErr
                    THEN /\ res' = [sha |-> s, extract |-> x, extracted |-> FALSE,
                                    state |-> "download_failed"]
                         /\ LegRaise("materialize")
                         /\ UNCHANGED cfg
                    ELSE IF ShaMismatch(s)
                    THEN /\ res' = [sha |-> s, extract |-> x, extracted |-> FALSE,
                                    state |-> "mismatch"]
                         /\ LegRaise("sha256")
                         /\ UNCHANGED cfg
                    ELSE IF x /\ exErr
                    THEN /\ res' = [sha |-> s, extract |-> x, extracted |-> FALSE,
                                    state |-> "extract_failed"]
                         /\ LegRaise("materialize")
                         /\ UNCHANGED cfg
                    ELSE /\ res' = NoRes
                         /\ cfg' = [cfg EXCEPT !.resources = @ - 1]
                         /\ UNCHANGED <<pc, failedIn>>
    /\ UNCHANGED <<inputVars, workdir, handler, targets, manifest, sinkVars, hbVars,
                   pushVars, mainVars, success, pending, retval, outcome, finVars, sigVars>>

\* writer = EventWriter(events_path, ctx=...)
LegCreateWriter ==
    /\ pc = "L_create_writer"
    /\ \E err \in BOOLEAN :
         IF ~err
         THEN /\ writer' = "open"
              /\ count' = 0
              /\ artifact' = <<>>
              /\ pc' = "L_hb_start"
              /\ UNCHANGED failedIn
         ELSE /\ LegRaise("create_writer")
              /\ UNCHANGED <<writer, count, artifact>>
    /\ UNCHANGED <<inputVars, workdir, handler, loadVars, closeOk, hbVars, pushVars,
                   mainVars, success, pending, retval, outcome, finVars, sigVars>>

\* hb = Heartbeat(...); hb.start(): the legacy start always creates the thread
LegHbStart ==
    /\ pc = "L_hb_start"
    /\ hbThread' = "waiting"
    /\ pc' = "L_build_cmd"
    /\ UNCHANGED <<inputVars, workdir, handler, loadVars, sinkVars, metrics, hbStop,
                   ticks, pushVars, mainVars, ctlVars, finVars, sigVars>>

\* an exception inside the inner try: its finally clause runs with it pending
LegRaiseInner(stage) ==
    /\ pending' = "raise"
    /\ failedIn' = stage
    /\ pc' = "L_fin_close"

\* the legacy adapter classes: HttpxAdapter, whose build_cmd always returns a
\* command, and any other BaseAdapter subclass
LegAdapterKinds == {"httpx", "other"}

\* HttpxAdapter.parse_tool_output: self._results_seen += 1 after emit returned;
\* the counter starts at 0 as processed_targets does in command mode
HttpxResultsSeen(seen) == seen + 1

\* if argv: command mode, else: generate mode
LegMode_AlwaysGenerate(cmd) == "generate"

LegMode(cmd) == IF cmd = "cmd" THEN "command" ELSE "generate"

\* argv = self.build_cmd(...), which may raise; then command mode (Popen, which
\* may raise) or generate mode
LegBuildCmd ==
    /\ pc = "L_build_cmd"
    /\ \E kind \in LegAdapterKinds, r \in {"cmd", "empty", "raise"}, err \in BOOLEAN :
         /\ kind = "httpx" => r # "empty"
         /\ adapter' = kind
         /\ IF r = "raise"
            THEN /\ LegRaiseInner("main")
                 /\ UNCHANGED <<metrics, lines, mainCalls, argv>>
            ELSE /\ argv' = r
                 /\ IF LegMode(r) = "command"
                    THEN /\ metrics' = [metrics EXCEPT !.phase = "exec",
                                                       !.processed_targets = 0]
                         /\ IF ~err
                            THEN /\ \E n \in 0..MaxLines : lines' = n
                                 /\ pc' = "L_exec"
                                 /\ UNCHANGED <<pending, failedIn>>
                            ELSE /\ LegRaiseInner("main")
                                 /\ UNCHANGED lines
                         /\ UNCHANGED mainCalls
                    ELSE /\ metrics' = [metrics EXCEPT !.phase = "generate",
                                                       !.processed_targets = targets]
                         /\ mainCalls' = mainCalls + 1
                         /\ pc' = "L_generate"
                         /\ UNCHANGED <<lines, pending, failedIn>>
    /\ UNCHANGED <<inputVars, workdir, handler, loadVars, sinkVars, hbStop, hbThread,
                   ticks, pushVars, produces, emits, success, retval, outcome, finVars,
                   sigVars>>

\* for line in proc.stdout: try: self.parse_tool_output(line, emit, hb) except: pass
\* the collaborator emits nothing, raises, or calls emit once for the line
LegExecLine ==
    /\ pc = "L_exec"
    /\ lines > 0
    /\ lines' = lines - 1
    /\ \E r \in {"skip", "raise", "emit"}, p \in ProducesRead(produces),
          t \in EventTypes, wrErr \in BOOLEAN :
         /\ produces' = IF r = "emit" THEN p ELSE produces
         /\ IF r = "emit" /\ ~Filtered(p, t) /\ ~wrErr
            THEN /\ artifact' = Append(artifact, t)
                 /\ count' = count + 1
                 /\ emits' = emits + 1
                 /\ pc' = "L_exec_metric"
            ELSE /\ emits' = IF r = "emit" THEN emits + 1 ELSE emits
                 /\ UNCHANGED <<artifact, count, pc>>
    /\ UNCHANGED <<inputVars, workdir, handler, loadVars, writer, closeOk, hbVars,
                   pushVars, mainCalls, adapter, argv, ctlVars, finVars, sigVars>>

\* emit: hb.metrics["emitted_docs"] = writer.count (command mode)
LegExecMetric ==
    /\ pc = "L_exec_metric"
    /\ metrics' = [metrics EXCEPT !.emitted_docs = count,
                                   !.processed_targets =
                                       IF adapter = "httpx" THEN HttpxResultsSeen(@) ELSE @]
    /\ pc' = "L_exec"
    /\ UNCHANGED <<inputVars, workdir, handler, loadVars, sinkVars, hbStop, hbThread,
                   ticks, pushVars, mainVars, ctlVars, finVars, sigVars>>

\* proc.wait(); exit_code = proc.returncode or 0
LegExecWait ==
    /\ pc = "L_exec"
    /\ lines = 0
    /\ \E code \in ToolExitCodes : retval' = code
    /\ pc' = "L_fin_close"
    /\ UNCHANGED <<inputVars, workdir, handler, loadVars, sinkVars, hbVars, pushVars,
                   mainVars, success, failedIn, pending, outcome, finVars, sigVars>>

\* generate calls emit(event_type, payload)
LegGenEmit ==
    /\ pc = "L_generate"
    /\ emits < MaxEmits
    /\ emits' = emits + 1
    /\ \E p \in ProducesRead(produces), t \in EventTypes, wrErr \in BOOLEAN :
         /\ produces' = p
         /\ IF Filtered(p, t)
            THEN UNCHANGED <<pc, artifact, count, failedIn, pending>>
            ELSE IF ~wrErr
            THEN /\ artifact' = Append(artifact, t)
                 /\ count' = count + 1
                 /\ pc' = "L_gen_metric"
                 /\ UNCHANGED <<failedIn, pending>>
            ELSE /\ LegRaiseInner("main")
                 /\ UNCHANGED <<artifact, count>>
    /\ UNCHANGED <<inputVars, workdir, handler, loadVars, writer, closeOk, hbVars,
                   pushVars, mainCalls, adapter, argv, lines, success, retval, outcome, finVars, sigVars>>

\* emit: hb.metrics["emitted_docs"] = writer.count (generate mode)
LegGenMetric ==
    /\ pc = "L_gen_metric"
    /\ metrics' = [metrics EXCEPT !.emitted_docs = count]
    /\ pc' = "L_generate"
    /\ UNCHANGED <<inputVars, workdir, handler, loadVars, sinkVars, hbStop, hbThread,
                   ticks, pushVars, mainVars, ctlVars, finVars, sigVars>>

\* generate returns: exit_code = 0 if writer.count >= before else 2
LegGenReturn ==
    /\ pc = "L_generate"
    /\ retval' = 0
    /\ pc' = "L_fin_close"
    /\ UNCHANGED <<inputVars, workdir, handler, loadVars, sinkVars, hbVars, pushVars,
                   mainVars, success, failedIn, pending, outcome, finVars, sigVars>>

\* generate raises
LegGenRaise ==
    /\ pc = "L_generate"
    /\ LegRaiseInner("main")
    /\ UNCHANGED <<inputVars, workdir, handler, loadVars, sinkVars, hbVars, pushVars,
                   mainVars, success, retval, outcome, finVars, sigVars>>

\* inner finally: writer.close(); its exception skips the rest of the clause
LegFinClose ==
    /\ pc = "L_fin_close"
    /\ writer' = "closed"
    /\ \E err \in BOOLEAN :
         /\ closeOk' = ~err
         /\ artifact' \in (IF ~err THEN {artifact} ELSE Prefixes(artifact))
         /\ IF ~err
            THEN /\ pc' = "L_fin_stop"
                 /\ UNCHANGED failedIn
            ELSE LegRaise("close")
    /\ UNCHANGED <<inputVars, workdir, handler, loadVars, count, hbVars, pushVars,
                   mainVars, success, pending, retval, outcome, finVars, sigVars>>

\* inner finally: hb.metrics["phase"] = "finalize"; hb.stop() (set, then _send)
LegFinStop ==
    /\ pc = "L_fin_stop"
    /\ metrics' = SetPhase("finalize")
    /\ hbStop' = TRUE
    /\ signals' = post_json(env.signalUrl,
                            [ProgressPayload EXCEPT !.phase = "finalize"])
    /\ \E o \in PushOutcomes(env.signalUrl) : pushLost' = (pushLost \/ Lost(o))
    /\ pc' = IF pending = "raise" THEN "L_except" ELSE "L_sha"
    /\ UNCHANGED <<inputVars, workdir, handler, loadVars, sinkVars, hbThread, ticks,
                   mainVars, ctlVars, finVars, sigVars>>

\* sha = _sha256_file(events_path)
LegSha ==
    /\ pc = "L_sha"
    /\ sha' = sha256_file(artifact)
    /\ outputEnv' \in UrlValues
    /\ pc' = IF Missing(outputEnv') THEN "L_results_ready" ELSE "L_upload"
    /\ UNCHANGED <<env, preserveEnv, workdir, handler, loadVars, sinkVars, hbVars, pushVars,
                   mainVars, ctlVars, stored, sigVars>>

\* if output_url: _http_put_stream(output_url, f, ...)
LegUpload ==
    /\ pc = "L_upload"
    /\ \E err \in BOOLEAN :
         IF ~err
         THEN /\ stored' = artifact
              /\ pc' = "L_results_ready"
              /\ UNCHANGED failedIn
         ELSE /\ LegRaise("upload")
              /\ UNCHANGED stored
    /\ UNCHANGED <<inputVars, workdir, handler, loadVars, sinkVars, hbVars, pushVars,
                   mainVars, success, pending, retval, outcome, sha, sigVars>>

\* _post(signal_url, results_ready payload); return exit_code
LegResultsReady ==
    /\ pc = "L_results_ready"
    /\ signals' = post_json(env.signalUrl, ResultsPayload)
    /\ \E o \in PushOutcomes(env.signalUrl) : pushLost' = (pushLost \/ Lost(o))
    /\ pending' = "return"
    /\ pc' = "L_rmtree"
    /\ UNCHANGED <<inputVars, workdir, handler, loadVars, sinkVars, hbVars, mainVars,
                   success, failedIn, retval, outcome, finVars, sigVars>>

\* except Exception: _post(signal_url, error payload); return 1
LegExcept ==
    /\ pc = "L_except"
    /\ signals' = post_json(env.signalUrl, ErrorPayload)
    /\ \E o \in PushOutcomes(env.signalUrl) : pushLost' = (pushLost \/ Lost(o))
    /\ pending' = "return"
    /\ retval' = 1
    /\ pc' = "L_rmtree"
    /\ UNCHANGED <<inputVars, workdir, handler, loadVars, sinkVars, hbVars, mainVars,
                   success, failedIn, outcome, finVars, sigVars>>

\* finally: rmtree unless ADAPTER_PRESERVE_WORKDIR is one of 1, true, yes
LegRmtree ==
    /\ pc = "L_rmtree"
    /\ preserveEnv' \in FlagValues
    /\ workdir' = IF LegacyPreserve(preserveEnv') THEN workdir ELSE "removed"
    /\ outcome' = "return"
    /\ pc' = "done"
    /\ UNCHANGED <<env, outputEnv, handler, loadVars, sinkVars, hbVars, pushVars, mainVars,
                   success, failedIn, pending, retval, finVars, sigVars>>

\* ---------------------------------------------- the reporter thread (legacy)
\* Heartbeat._run: `while not self._stop.is_set()` holds
LegHbWake ==
    /\ env.rt = "legacy"
    /\ hbThread = "waiting"
    /\ ~hbStop
    /\ ticks < MaxTicks
    /\ hbThread' = "sending"
    /\ UNCHANGED <<inputVars, pc, workdir, handler, loadVars, sinkVars, metrics, hbStop,
                   ticks, pushVars, mainVars, ctlVars, finVars, sigVars>>

\* Heartbeat._run: self._send(); self._stop.wait(interval)
LegHbSend ==
    /\ env.rt = "legacy"
    /\ hbThread = "sending"
    /\ signals' = post_json(env.signalUrl, ProgressPayload)
    /\ \E o \in PushOutcomes(env.signalUrl) : pushLost' = (pushLost \/ Lost(o))
    /\ ticks' = ticks + 1
    /\ hbThread' = "waiting"
    /\ UNCHANGED <<inputVars, pc, workdir, handler, loadVars, sinkVars, metrics, hbStop,
                   mainVars, ctlVars, finVars, sigVars>>

\* Heartbeat._run: the loop test fails once _stop is set
LegHbExit ==
    /\ env.rt = "legacy"
    /\ hbThread = "waiting"
    /\ hbStop
    /\ hbThread' = "exited"
    /\ UNCHANGED <<inputVars, pc, workdir, handler, loadVars, sinkVars, metrics, hbStop,
                   ticks, pushVars, mainVars, ctlVars, finVars, sigVars>>

\* ============================================================ specification
SdkNext ==
    \/ SdkResolve \/ SdkInstallHandler \/ SdkSetup \/ SdkLoadTargets \/ SdkFetchManifest
    \/ SdkBuildConfig \/ SdkPrepareResource \/ SdkCreateWriter \/ SdkHbStart
    \/ SdkPhaseMain \/ MainEmit \/ MainEmitMetric \/ MainReturn \/ MainRaise
    \/ WrapBuildCmd \/ WrapStreamLine \/ WrapStreamMetric \/ WrapStreamEnd
    \/ SdkPhaseFinalize \/ SdkReturnZero \/ SdkExceptException
    \/ FinHbStop \/ FinHbSend \/ FinWriterClose \/ FinRestore
    \/ FinSha \/ FinUpload \/ FinResultsReady \/ FinRmtree
    \/ Sigterm \/ HbWake \/ HbSend \/ HbExit

LegacyNext ==
    \/ LegResolve \/ LegLoadTargets \/ LegLoadManifest \/ LegPrepareResource
    \/ LegCreateWriter \/ LegHbStart \/ LegBuildCmd \/ LegExecLine \/ LegExecMetric
    \/ LegExecWait \/ LegGenEmit \/ LegGenMetric \/ LegGenReturn \/ LegGenRaise
    \/ LegFinClose \/ LegFinStop \/ LegSha \/ LegUpload \/ LegResultsReady
    \/ LegExcept \/ LegRmtree \/ LegHbWake \/ LegHbSend \/ LegHbExit

Next == SdkNext \/ LegacyNext

Spec == Init /\ [][Next]_vars

\* the SDK run with a signal endpoint, the only runs that have a reporter thread
ReporterInit ==
    /\ env \in {e \in Environments : e.rt = "sdk" /\ e.signalUrl}
    /\ pc = "resolve"
    /\ InitState

ReporterSpec == ReporterInit /\ [][SdkNext]_vars

\* =========================================== the Event Sink as an object
\* One EventWriter driven by an arbitrary caller: constructed, then any
\* sequence of emit() and close() calls, emit() after close() included.

\* mutant of WriteRaises: a write on the closed stream is accepted
WriteRaises_Never(w) == FALSE

\* self._gzip.write(...) on a GzipFile that close() has been called on raises
WriteRaises(w) == w = "closed"

WriterInit ==
    /\ env \in {e \in Environments : e.rt = "sdk" /\ e.inputsUrl = "set" /\ ~e.signalUrl}
    /\ pc = "writer"
    /\ InitState

\* EventWriter.__init__: count = 0, the file is opened for writing
EventWriterNew ==
    /\ pc = "writer"
    /\ writer = "none"
    /\ writer' = "open"
    /\ count' = 0
    /\ artifact' = <<>>
    /\ UNCHANGED <<inputVars, pc, workdir, handler, loadVars, closeOk, hbVars, pushVars,
                   mainVars, ctlVars, finVars, sigVars>>

\* EventWriter.emit: build the envelope, self._gzip.write(data), self.count += 1;
\* an exception of write leaves count as it was
EventWriterEmit ==
    /\ pc = "writer"
    /\ writer # "none"
    /\ emits < MaxWrites
    /\ emits' = emits + 1
    /\ \E t \in EventTypes, wrErr \in BOOLEAN :
         IF WriteRaises(writer) \/ (writer = "open" /\ wrErr)
         THEN /\ failedIn' = "emit"
              /\ UNCHANGED <<artifact, count>>
         ELSE /\ artifact' = Append(artifact, t)
              /\ count' = count + 1
              /\ failedIn' = "none"
    /\ UNCHANGED <<inputVars, pc, workdir, handler, loadVars, writer, closeOk, hbVars,
                   pushVars, mainCalls, adapter, argv, produces, lines, success, pending, retval, outcome,
                   finVars, sigVars>>

\* EventWriter.close: try: self._gzip.close() finally: self._raw.close();
\* closing a closed writer does nothing
EventWriterClose ==
    /\ pc = "writer"
    /\ writer # "none"
    /\ IF writer = "closed"
       THEN UNCHANGED <<sinkVars, failedIn>>
       ELSE \E err \in BOOLEAN :
              /\ writer' = "closed"
              /\ closeOk' = ~err
              /\ artifact' \in (IF ~err THEN {artifact} ELSE Prefixes(artifact))
              /\ failedIn' = IF err THEN "close" ELSE "none"
              /\ UNCHANGED count
    /\ UNCHANGED <<inputVars, pc, workdir, handler, loadVars, hbVars, pushVars,
                   mainVars, success, pending, retval, outcome, finVars, sigVars>>

WriterNext == EventWriterNew \/ EventWriterEmit \/ EventWriterClose

WriterSpec == WriterInit /\ [][WriterNext]_vars

\* ---- the envelope of one artifact line ----

\* values of TOOL_IMAGE_DIGEST and RUN_ID in the environment
DigestValues == {"unset", "", "sha256:d"}

RunIds == {"", "run-1"}

\* iso_now() at the moment of the emit
Timestamps == {"t1", "t2"}

\* payloads a collaborator hands to emit; one carries a key named like a run-identity key
Payloads == {[name |-> "a.com"], [name |-> "a.com", run_id |-> "forged"]}

\* env_str("TOOL_IMAGE_DIGEST") or None; os.getenv("TOOL_IMAGE_DIGEST") or None
DigestOrNone(v) == IF v \in {"unset", ""} THEN "None" ELSE v

\* BaseAdapter._build_event_context: the digest key only when the digest is truthy
BuildEventContext_AlwaysDigest(e) ==
    [tool |-> "tool", tool_version |-> "1", run_id |-> e.runId, batch_id |-> "batch",
     tool_image_digest |-> DigestOrNone(e.digest)]

BuildEventContext(e) ==
    LET context == [tool |-> "tool", tool_version |-> "1", run_id |-> e.runId,
                    batch_id |-> "batch"]
    IN  IF DigestOrNone(e.digest) # "None"
        THEN context @@ ("tool_image_digest" :> DigestOrNone(e.digest))
        ELSE context

\* the ctx dict of the legacy run: always has the key tool_image_digest
LegEventContext(e) ==
    [tool |-> "tool", tool_version |-> "1", run_id |-> e.runId, batch_id |-> "batch",
     tool_image_digest |-> DigestOrNone(e.digest)]

\* EventWriter.emit (SDK): {"event_type":…, "timestamp":…, "payload":…, **self.context}
SdkEnvelope(context, t, ts, payload) ==
    context @@ [event_type |-> t, timestamp |-> ts, payload |-> payload]

\* EventWriter.emit (legacy): the seven keys, then the digest if ctx.get(...) is truthy
LegEnvelope(ctx, t, ts, payload) ==
    LET line == [tool |-> ctx.tool, tool_version |-> ctx.tool_version,
                 run_id |-> ctx.run_id, batch_id |-> ctx.batch_id,
                 event_type |-> t, timestamp |-> ts, payload |-> payload]
    IN  IF ctx.tool_image_digest # "None"
        THEN line @@ ("tool_image_digest" :> ctx.tool_image_digest)
        ELSE line

EnvelopeInit ==
    /\ env \in [rt : Runtimes, inputsUrl : {"set"}, signalUrl : {FALSE},
                digest : DigestValues, runId : RunIds]
    /\ pc = "envelope"
    /\ InitState

\* writer = EventWriter(events_path, context): the context is fixed here
EnvelopeWriterNew ==
    /\ pc = "envelope"
    /\ writer = "none"
    /\ writer' = "open"
    /\ UNCHANGED <<inputVars, pc, workdir, handler, loadVars, count, artifact, closeOk,
                   hbVars, pushVars, mainVars, ctlVars, finVars, sigVars>>

\* one emit of the SDK writer
SdkWriterEmit ==
    /\ pc = "envelope"
    /\ env.rt = "sdk"
    /\ writer = "open"
    /\ count < MaxWrites
    /\ \E t \in EventTypes, ts \in Timestamps, payload \in Payloads :
         artifact' = Append(artifact, SdkEnvelope(BuildEventContext(env), t, ts, payload))
    /\ count' = count + 1
    /\ UNCHANGED <<inputVars, pc, workdir, handler, loadVars, writer, closeOk,
                   hbVars, pushVars, mainVars, ctlVars, finVars, sigVars>>

\* one emit of the legacy writer
LegWriterEmit ==
    /\ pc = "envelope"
    /\ env.rt = "legacy"
    /\ writer = "open"
    /\ count < MaxWrites
    /\ \E t \in EventTypes, ts \in Timestamps, payload \in Payloads :
         artifact' = Append(artifact, LegEnvelope(LegEventContext(env), t, ts, payload))
    /\ count' = count + 1
    /\ UNCHANGED <<inputVars, pc, workdir, handler, loadVars, writer, closeOk,
                   hbVars, pushVars, mainVars, ctlVars, finVars, sigVars>>

EnvelopeNext == EnvelopeWriterNew \/ SdkWriterEmit \/ LegWriterEmit

EnvelopeSpec == EnvelopeInit /\ [][EnvelopeNext]_vars

\* ---- the resource loop of the SDK run, one resource at a time ----

\* the entries a manifest can list: ResourceSpec with the URL reduced to its last
\* path segment and the checksum to how it compares with the downloaded bytes
ResourceSpecs ==
    [name : {"a.bin"}, urlName : {"", "b.bin"}, filename : {"", "a.bin"},
     sha256 : {"none", "match", "mismatch"}, extract : BOOLEAN]

\* BatchConfig.from_manifest_doc: the resources in the order of the document
ManifestResources == UNION {[1..k -> ResourceSpecs] : k \in 0..MaxResources}

\* materialize_resource: spec.filename or Path(spec.url.split("?")[0]).name or spec.name
Destination(spec) ==
    IF spec.filename # "" THEN spec.filename
    ELSE IF spec.urlName # "" THEN spec.urlName
    ELSE spec.name

FileNames == {"a.bin", "b.bin"}

NoFile == <<0, "absent">>

\* download_to_path: destination.open("wb") replaces whatever the file held
WriteFile_KeepExisting(files, name, content) ==
    IF files[name] = NoFile THEN [files EXCEPT ![name] = content] ELSE files

WriteFile(files, name, content) == [files EXCEPT ![name] = content]

MaterializeInit ==
    /\ env \in {e \in Environments : e.rt = "sdk" /\ e.inputsUrl = "set" /\ ~e.signalUrl}
    /\ pc = "materialize"
    /\ InitState

\* cfg = self._load_manifest(...): here cfg.resources is the list itself, and res
\* the loop's state: the index of the resource in hand, the step it is at, the
\* files of the resources directory and the operations done so far
MatLoadManifest ==
    /\ pc = "materialize"
    /\ res = NoRes
    /\ \E list \in ManifestResources : cfg' = [parameters |-> "empty", resources |-> list]
    /\ res' = [next |-> 1, step |-> "download", files |-> [f \in FileNames |-> NoFile],
               log |-> <<>>]
    /\ UNCHANGED <<inputVars, pc, workdir, handler, fetched, targets, manifest, corrupt,
                   sinkVars, hbVars, pushVars, mainVars, ctlVars, finVars, sigVars>>

\* materialize_resource: download_to_path(spec.url, dest); a failed download
\* leaves a truncated file and ends the loop
MatDownload ==
    /\ pc = "materialize"
    /\ res # NoRes
    /\ res.step = "download"
    /\ res.next <= Len(cfg.resources)
    /\ LET spec == cfg.resources[res.next]
       IN  \E dlErr \in BOOLEAN :
             res' = [res EXCEPT
                       !.files = WriteFile(@, Destination(spec),
                                           <<res.next, IF dlErr THEN "partial" ELSE "full">>),
                       !.log = Append(@, <<res.next, "download">>),
                       !.step = IF dlErr THEN "failed"
                                ELSE IF spec.extract THEN "extract" ELSE "verify"]
    /\ UNCHANGED <<inputVars, pc, workdir, handler, fetched, targets, manifest, cfg, corrupt,
                   sinkVars, hbVars, pushVars, mainVars, ctlVars, finVars, sigVars>>

\* materialize_resource: if spec.extract: extract_resource(dest, destination_dir)
MatExtract ==
    /\ pc = "materialize"
    /\ res # NoRes
    /\ res.step = "extract"
    /\ \E exErr \in BOOLEAN :
         res' = IF exErr THEN [res EXCEPT !.step = "failed"]
                ELSE [res EXCEPT !.log = Append(@, <<res.next, "extract">>),
                                 !.step = "verify"]
    /\ UNCHANGED <<inputVars, pc, workdir, handler, fetched, targets, manifest, cfg, corrupt,
                   sinkVars, hbVars, pushVars, mainVars, ctlVars, finVars, sigVars>>

\* _prepare_resource: the checksum comparison, then the next resource of the loop
MatVerify ==
    /\ pc = "materialize"
    /\ res # NoRes
    /\ res.step = "verify"
    /\ res' = IF ShaMismatch(cfg.resources[res.next].sha256)
              THEN [res EXCEPT !.step = "failed"]
              ELSE [res EXCEPT !.log = Append(@, <<res.next, "prepared">>),
                               !.next = @ + 1,
                               !.step = "download"]
    /\ UNCHANGED <<inputVars, pc, workdir, handler, fetched, targets, manifest, cfg, corrupt,
                   sinkVars, hbVars, pushVars, mainVars, ctlVars, finVars, sigVars>>

\* the for loop is exhausted
MatLoopEnd ==
    /\ pc = "materialize"
    /\ res # NoRes
    /\ res.step = "download"
    /\ res.next > Len(cfg.resources)
    /\ res' = [res EXCEPT !.step = "done"]
    /\ UNCHANGED <<inputVars, pc, workdir, handler, fetched, targets, manifest, cfg, corrupt,
                   sinkVars, hbVars, pushVars, mainVars, ctlVars, finVars, sigVars>>

MaterializeNext == MatLoadManifest \/ MatDownload \/ MatExtract \/ MatVerify \/ MatLoopEnd

MaterializeSpec == MaterializeInit /\ [][MaterializeNext]_vars

\* ---- spawn_and_stream on its own ----

\* the lines the child writes, without their newline: a blank line is a line too
LineTexts == {"", "a"}

ChildOutputs == UNION {[1..k -> LineTexts] : k \in 0..MaxOutput}

\* process.returncode after wait(): <<n>> for the integer n, <<>> for None
ReturnCodes == {<<0>>, <<1>>, <<-9>>}

\* process.returncode or 0
ReturnCodeOr0(rc) == IF rc = <<>> \/ rc = <<0>> THEN 0 ELSE rc[1]

\* for raw_line in process.stdout: the iterator yields the line after the last one read
NextLine_Skip(pos) == pos + 2

NextLine(pos) == pos + 1

StreamInit ==
    /\ env \in {e \in Environments : e.rt = "sdk" /\ e.inputsUrl = "set" /\ ~e.signalUrl}
    /\ pc = "S_spawn"
    /\ InitState

\* hb.metrics["phase"] = "exec"; process = subprocess.Popen(...). Here lines
\* holds the child: what it writes to stdout, how many lines were read, the
\* calls and returns of on_line in order, and the process's state and exit code
StreamSpawn ==
    /\ pc = "S_spawn"
    /\ metrics' = SetPhase("exec")
    /\ \E popenErr \in BOOLEAN :
         IF popenErr
         THEN /\ pc' = "S_raised"
              /\ UNCHANGED lines
         ELSE /\ pc' = "S_read"
              /\ \E out \in ChildOutputs :
                   lines' = [stdout |-> out, pos |-> 0, calls |-> <<>>,
                             proc |-> "running", returncode |-> <<>>]
    /\ UNCHANGED <<inputVars, workdir, handler, loadVars, sinkVars, hbStop, hbThread,
                   ticks, pushVars, mainCalls, adapter, argv, produces, emits, ctlVars, finVars,
                   sigVars>>

\* the loop takes the next line and calls on_line(raw_line.rstrip("\n"))
StreamRead ==
    /\ pc = "S_read"
    /\ lines.pos < Len(lines.stdout)
    /\ lines' = [lines EXCEPT !.pos = NextLine(@),
                               !.calls = Append(@, <<"call", NextLine(lines.pos)>>)]
    /\ pc' = "S_handler"
    /\ UNCHANGED <<inputVars, workdir, handler, loadVars, sinkVars, hbVars, pushVars,
                   mainCalls, adapter, argv, produces, emits, ctlVars, finVars, sigVars>>

\* on_line returns
StreamHandlerReturn ==
    /\ pc = "S_handler"
    /\ lines' = [lines EXCEPT !.calls = Append(@, <<"return", lines.pos>>)]
    /\ pc' = "S_read"
    /\ UNCHANGED <<inputVars, workdir, handler, loadVars, sinkVars, hbVars, pushVars,
                   mainCalls, adapter, argv, produces, emits, ctlVars, finVars, sigVars>>

\* on_line raises: the finally clause waits, then the exception propagates
StreamHandlerRaise ==
    /\ pc = "S_handler"
    /\ pending' = "raise"
    /\ pc' = "S_wait"
    /\ UNCHANGED <<inputVars, workdir, handler, loadVars, sinkVars, hbVars, pushVars,
                   mainVars, success, failedIn, retval, outcome, finVars, sigVars>>

\* the child closed its stdout: the for loop ends
StreamEof ==
    /\ pc = "S_read"
    /\ lines.pos >= Len(lines.stdout)
    /\ pc' = "S_wait"
    /\ UNCHANGED <<inputVars, workdir, handler, loadVars, sinkVars, hbVars, pushVars,
                   mainVars, ctlVars, finVars, sigVars>>

\* finally: process.wait()
StreamWait ==
    /\ pc = "S_wait"
    /\ \E rc \in ReturnCodes :
         lines' = [lines EXCEPT !.proc = "exited", !.returncode = rc]
    /\ pc' = IF pending = "raise" THEN "S_raised" ELSE "S_return"
    /\ UNCHANGED <<inputVars, workdir, handler, loadVars, sinkVars, hbVars, pushVars,
                   mainCalls, adapter, argv, produces, emits, ctlVars, finVars, sigVars>>

\* return process.returncode or 0
StreamReturn ==
    /\ pc = "S_return"
    /\ retval' = ReturnCodeOr0(lines.returncode)
    /\ pc' = "S_done"
    /\ UNCHANGED <<inputVars, workdir, handler, loadVars, sinkVars, hbVars, pushVars,
                   mainVars, success, failedIn, pending, outcome, finVars, sigVars>>

StreamNext ==
    \/ StreamSpawn \/ StreamRead \/ StreamHandlerReturn \/ StreamHandlerRaise
    \/ StreamEof \/ StreamWait \/ StreamReturn

StreamSpec == StreamInit /\ [][StreamNext]_vars

\* ==================================================================== claims
Done == pc = "done"

\* a results_ready document has been pushed
ResultsReadySent == \E i \in DOMAIN signals : signals[i].kind = "results_ready"

\* an error signal (progress, phase error) has been pushed
ErrorSignalSent ==
    \E i \in DOMAIN signals : signals[i].kind = "progress" /\ signals[i].phase = "error"

\* the values ADAPTER_PRESERVE_WORKDIR may have: the one run() read, or any
\* value when run() ended without reading it
PossibleFlags == IF preserveEnv = "unread" THEN FlagValues ELSE {preserveEnv}

\* the working directory is gone unless the flag preserves it, whatever the flag is
WorkdirCleanedUp ==
    \A f \in PossibleFlags :
        workdir = (IF Preserved(f) THEN "present" ELSE "removed")

\* C1: with INPUTS_URL absent or empty, run (SDK and legacy) returns 2 before any
\* side effect: no working directory, no signal pushed, no fetch attempted, no
\* SIGTERM handler installed, no sink, no reporter thread.
C1_MissingInputsUrlExits2 ==
    Missing(env.inputsUrl) =>
        /\ pc \in {"resolve", "L_resolve", "done"}
        /\ workdir = "none"
        /\ signals = <<>>
        /\ ~fetched
        /\ handler = "previous"
        /\ writer = "none"
        /\ hbThread = "none"
        /\ Done => (outcome = "return" /\ retval = 2)

C1_Witness ==
    /\ env.rt = "sdk"
    /\ env.inputsUrl = "empty"
    /\ env.signalUrl
    /\ Done
    /\ retval = 2

\* the steps of the SDK run named by C2, as recorded when their exception
\* reaches `except Exception`
SdkRunFailures == {"load_targets", "materialize", "sha256", "main"}

\* C2: in the SDK run, once fetching the inputs, materializing or verifying a
\* resource, or the collaborator's main has raised, the checksum step, the upload
\* and results_ready never happen, and a run that is not interrupted by SIGTERM
\* returns 1.
C2_FailureReturns1NoUpload ==
    (env.rt = "sdk" /\ failedIn \in SdkRunFailures) =>
        /\ workdir # "none"
        /\ sha = "none"
        /\ stored = "none"
        /\ ~ResultsReadySent
        /\ (Done /\ terms = 0) => (outcome = "return" /\ retval = 1)

C2_Witness ==
    /\ env.rt = "sdk"
    /\ env.signalUrl
    /\ failedIn = "main"
    /\ writer = "closed"
    /\ Done
    /\ retval = 1

\* C3: in the SDK run, when the upload of the artifact fails in FINALIZE, run
\* returns 1 to its caller.
C3_UploadFailureReturns1 ==
    (env.rt = "sdk" /\ failedIn = "upload" /\ Done) =>
        (outcome = "return" /\ retval = 1)

\* C4: every SDK run that got past INIT and ends by success, by a failure in
\* LOAD_INPUTS, PREPARE_RESOURCES or RUN, or by an upload failure in FINALIZE
\* (no SIGTERM), has removed the working directory when the preserve flag is
\* unset, and has kept it when the flag is set.
C4_WorkdirRemovedUnlessPreserved ==
    (env.rt = "sdk" /\ Done /\ workdir # "none" /\ terms = 0) => WorkdirCleanedUp

\* C5: an SDK run interrupted by SIGTERM inside the try statement or inside its
\* cleanup steps still ends with the Event Sink closed and the working
\* directory removed unless preserved.
C5_SigtermStillCleansUp ==
    (env.rt = "sdk" /\ Done /\ termAt \in {"try", "finally"}) =>
        /\ writer # "open"
        /\ WorkdirCleanedUp

\* C6: an SDK run with a signal endpoint that SIGTERM interrupts mid-run (inside
\* the try statement) has pushed an error signal by the time it ends.
C6_SigtermPushesErrorSignal ==
    (env.rt = "sdk" /\ env.signalUrl /\ Done /\ termAt = "try") => ErrorSignalSent

\* what the manifest URL gives when the manifest is absent, cannot be fetched, is
\* not JSON, or is JSON that is not an object
MalformedManifests == {"nourl", "fetchfail", "badjson", "falsy", "nonobject"}

\* C7: in the SDK run, building the configuration from an absent, unfetchable,
\* unparsable or wrongly shaped manifest never aborts: unless SIGTERM interrupts,
\* the run goes on to the resources step with empty parameters and no resource.
C7_MalformedManifestProceeds ==
    [][(env.rt = "sdk" /\ pc = "build_config" /\ manifest \in MalformedManifests
        /\ terms' = terms)
       => (/\ pc' = "prepare_resources"
           /\ cfg' = [parameters |-> "empty", resources |-> 0]
           /\ failedIn' = "none")]_vars

\* positions of the SDK run from the creation of the Event Sink to the end of RUN
RunPositions == {"hb_start", "phase_main", "main", "emit_metric", "W_build_cmd",
                 "W_stream", "W_stream_metric", "phase_finalize", "return_zero"}

\* C8: in the SDK run, once a resource has been downloaded whose declared sha256
\* differs from its bytes, the Event Sink is never created, the reporter thread
\* never started, main never invoked, results_ready never sent; a run not
\* interrupted by SIGTERM returns 1 with the working directory removed unless
\* the preserve flag is set.
C8_ChecksumMismatchAborts ==
    (env.rt = "sdk" /\ corrupt) =>
        /\ pc \notin RunPositions
        /\ writer = "none"
        /\ hbThread = "none"
        /\ mainCalls = 0
        /\ ~ResultsReadySent
        /\ (Done /\ terms = 0) =>
              (outcome = "return" /\ retval = 1 /\ WorkdirCleanedUp)

C8_Witness ==
    /\ env.rt = "sdk"
    /\ corrupt
    /\ res.state = "mismatch"
    /\ env.signalUrl
    /\ Done
    /\ retval = 1
    /\ workdir = "removed"

\* C9: in the SDK run, the doc_count of every results_ready pushed equals the
\* number of envelope lines in the artifact.
C9_DocCountEqualsArtifactLines ==
    env.rt = "sdk" =>
        \A i \in DOMAIN signals :
            signals[i].kind = "results_ready" => signals[i].doc_count = Len(artifact)

\* C10: in both runtimes the finalize steps are ordered: the checksum is computed
\* only once the sink is closed, the upload happens only after the checksum, and
\* results_ready is sent only after the sink is closed, the checksum computed
\* and, with an output URL, the upload completed.
C10_FinalizeOrder ==
    /\ sha # "none" => writer = "closed"
    /\ stored # "none" => (sha # "none" /\ outputEnv = "set")
    /\ ResultsReadySent =>
          /\ writer = "closed"
          /\ sha # "none"
          /\ outputEnv = "set" => stored # "none"

C10_Witness ==
    /\ env.rt = "legacy"
    /\ outputEnv = "set"
    /\ ResultsReadySent
    /\ stored # "none"
    /\ Done
    /\ retval = 0
\* the steps of the SDK run that come before the Event Sink is closed
BeforeCloseFailures == SdkRunFailures \cup {"load_manifest", "create_writer"}

\* C11: in the SDK run, after a failure that precedes a successful close of the
\* Event Sink (a step of the try body raised, or close itself raised), the
\* artifact is never stored at the output URL and results_ready is never pushed.
C11_NoFinalizeAfterFailedClose ==
    (env.rt = "sdk" /\ (failedIn \in BeforeCloseFailures \/ ~closeOk)) =>
        /\ stored = "none"
        /\ ~ResultsReadySent
\* C12: in the SDK run's command mode, handling one output line never aborts the
\* run: whatever the wrapper does with the line (an exception included), the
\* streaming loop goes on with the lines that remain and no failure is recorded.
C12_HandlerExceptionDropsOnlyLine ==
    [][(env.rt = "sdk" /\ pc = "W_stream" /\ lines > 0 /\ terms' = terms)
       => (/\ pc' \in {"W_stream", "W_stream_metric"}
           /\ failedIn' = failedIn)]_vars
\* FINALIZE completed: the checksum was computed, the artifact stored when an
\* output URL is configured, results_ready pushed when a signal URL is configured
FinalizeCompleted ==
    /\ sha # "none"
    /\ outputEnv = "set" => stored # "none"
    /\ env.signalUrl => ResultsReadySent

\* C13: a legacy run that got past INIT returns 0 exactly when FINALIZE
\* completed, in generate mode and in command mode, whatever the exit status of
\* the external tool.
C13_LegacyZeroIffFinalized ==
    (env.rt = "legacy" /\ Done /\ workdir # "none") =>
        /\ outcome = "return"
        /\ (retval = 0) <=> FinalizeCompleted
\* how many error signals (progress, phase error) have been pushed
ErrorSignals ==
    Cardinality({i \in DOMAIN signals :
                    signals[i].kind = "progress" /\ signals[i].phase = "error"})

\* the run ended by returning 0
Succeeded == Done /\ outcome = "return" /\ retval = 0

\* C14: an SDK run with a signal endpoint that got past INIT and is not
\* interrupted by SIGTERM has pushed exactly one error signal when it ends in
\* failure (in LOAD_INPUTS, PREPARE_RESOURCES, RUN or FINALIZE) and none when it
\* ends in success.
C14_ExactlyOneErrorSignal ==
    (env.rt = "sdk" /\ env.signalUrl /\ Done /\ workdir # "none" /\ terms = 0) =>
        ErrorSignals = (IF Succeeded THEN 0 ELSE 1)
\* the positions of the progress-kind documents among the pushed signals
ProgressSignals == {i \in DOMAIN signals : signals[i].kind = "progress"}

\* the phase carried by the last progress-kind signal pushed ("none" without one)
LastProgressPhase ==
    IF ProgressSignals = {} THEN "none"
    ELSE signals[CHOOSE i \in ProgressSignals : \A j \in ProgressSignals : j <= i].phase

\* C15: when an SDK run with a signal endpoint that got past INIT ends without
\* SIGTERM, the last progress-kind signal pushed carries `finalize` if the run
\* succeeded and `error` if it failed.
C15_LastProgressIsTerminalPhase ==
    (env.rt = "sdk" /\ env.signalUrl /\ Done /\ workdir # "none" /\ terms = 0) =>
        LastProgressPhase = (IF Succeeded THEN "finalize" ELSE "error")
\* C16: without a signal endpoint URL no reporter thread ever exists and nothing
\* is ever pushed, in the SDK run and in the legacy run.
C16_NoThreadWithoutSignalUrl ==
    ~env.signalUrl => (hbThread = "none" /\ signals = <<>>)
\* how many heartbeats (progress documents that are not error signals) were pushed
HeartbeatPushes ==
    Cardinality({i \in DOMAIN signals :
                    signals[i].kind = "progress" /\ signals[i].phase # "error"})

\* C17: with a signal endpoint, once stop() has returned, one heartbeat more than
\* the reporter thread's ticks has been pushed (the final one), whether or not
\* start() had created the thread; and every SDK run that got past INIT and ends
\* by return has called stop().
C17_StopAlwaysPushes ==
    /\ (env.signalUrl /\ hbStop /\ pc # "fin_hb_send" /\ termAt # "finally") =>
          HeartbeatPushes >= ticks + 1
    /\ (env.rt = "sdk" /\ Done /\ outcome = "return" /\ workdir # "none") => hbStop

C17_Witness ==
    /\ env.rt = "sdk"
    /\ env.signalUrl
    /\ failedIn = "load_targets"
    /\ hbThread = "none"
    /\ hbStop
    /\ HeartbeatPushes = 1
    /\ Done
    /\ outcome = "return"
\* the steps of the try body whose exception ends an SDK run
TryFailures == BeforeCloseFailures \cup {"stream"}

\* C18: the exit code of an SDK run and the content stored at the output URL are
\* determined by what the inputs, the resources, the collaborator, the sink and
\* the upload did, the same whether or not some signal push was lost: no failure
\* means return 0 with the whole artifact stored, a failure of the try body means
\* return 1 with nothing stored, and no push failure ever changes either.
C18_PushOutcomeDoesNotInfluenceRun ==
    (env.rt = "sdk" /\ Done /\ workdir # "none" /\ terms = 0) =>
        /\ failedIn = "none" =>
              /\ outcome = "return"
              /\ retval = 0
              /\ stored = (IF outputEnv = "set" THEN artifact ELSE "none")
        /\ failedIn \in TryFailures =>
              /\ outcome = "return"
              /\ retval = 1
              /\ stored = "none"
        /\ failedIn = "upload" => (outcome = "raise" /\ stored = "none")

C18_Witness ==
    /\ env.rt = "sdk"
    /\ env.signalUrl
    /\ pushLost
    /\ Done
    /\ outcome = "return"
    /\ retval = 0
    /\ count = 1
    /\ outputEnv = "set"
    /\ stored = artifact
    /\ ResultsReadySent
\* C19: every emit() on a closed EventWriter raises and leaves the count and the
\* artifact as they were; every emit() that returns on an open EventWriter
\* appended exactly one line to the artifact and raised the count by exactly one.
C19_EmitAfterCloseFails ==
    [][(pc = "writer" /\ emits' = emits + 1) =>
          IF writer = "closed"
          THEN /\ failedIn' = "emit"
               /\ count' = count
               /\ artifact' = artifact
          ELSE failedIn' = "none" =>
                 /\ count' = count + 1
                 /\ Len(artifact') = Len(artifact) + 1
                 /\ SubSeq(artifact', 1, Len(artifact)) = artifact]_vars

C19_Witness ==
    /\ pc = "writer"
    /\ writer = "closed"
    /\ closeOk
    /\ failedIn = "emit"
    /\ emits = 2
    /\ count = 1
    /\ Len(artifact) = 1
\* positions at which the collaborator runs (RUN), in the SDK run and the legacy run
CollaboratorPositions ==
    {"main", "emit_metric", "W_build_cmd", "W_stream", "W_stream_metric",
     "L_exec", "L_exec_metric", "L_generate", "L_gen_metric"}

\* C20: while the collaborator runs, the processed_targets value of the metrics
\* equals the number of targets loaded from the input document (its non-blank
\* lines), in both runtimes.
C20_ProcessedTargetsIsTargetCount ==
    pc \in CollaboratorPositions => metrics.processed_targets = targets

\* C21: a masscan adapter run of the SDK with zero targets never spawns a
\* subprocess (spawn_and_stream is not entered, no line is streamed), emits
\* nothing and does not fail in its collaborator; when nothing else fails it
\* returns 0, and with an output URL the stored artifact exists with zero lines.
C21_ZeroTargetsIsNotAnError ==
    (env.rt = "sdk" /\ adapter = "masscan" /\ targets = 0) =>
        /\ pc \notin {"W_stream", "W_stream_metric", "main", "emit_metric"}
        /\ metrics.phase # "exec"
        /\ lines = 0
        /\ count = 0 /\ artifact = <<>>
        /\ failedIn \notin {"main", "stream"}
        /\ (Done /\ terms = 0 /\ failedIn = "none") =>
              /\ outcome = "return" /\ retval = 0
              /\ outputEnv = "set" => stored = <<>>

C21_Witness ==
    /\ env.rt = "sdk" /\ adapter = "masscan" /\ targets = 0
    /\ ~env.signalUrl /\ outputEnv = "set"
    /\ Done /\ outcome = "return" /\ retval = 0
    /\ stored = <<>> /\ sha = sha256_file(<<>>)

\* positions of the legacy run after build_cmd was called
LegAfterDispatch ==
    {"L_exec", "L_exec_metric", "L_generate", "L_gen_metric", "L_fin_close",
     "L_fin_stop", "L_sha", "L_upload", "L_results_ready"}

EnvelopeKeys ==
    {"tool", "tool_version", "run_id", "batch_id", "event_type", "timestamp", "payload"}

\* C24: every line of the artifact has exactly the seven envelope keys, plus
\* tool_image_digest exactly when TOOL_IMAGE_DIGEST is set to a non-empty value;
\* tool, tool_version, run_id and batch_id (and the digest) are the run's own
\* values on every line, whatever the event's payload contains.
C24_EnvelopeKeysExact ==
    \A i \in DOMAIN artifact :
        LET line == artifact[i]
            configured == env.digest \notin {"unset", ""}
        IN  /\ DOMAIN line = EnvelopeKeys \cup
                             (IF configured THEN {"tool_image_digest"} ELSE {})
            /\ line.tool = "tool" /\ line.tool_version = "1"
            /\ line.run_id = env.runId /\ line.batch_id = "batch"
            /\ configured => line.tool_image_digest = env.digest
            /\ line.event_type \in EventTypes
            /\ line.payload \in Payloads

C24_Witness ==
    /\ Len(artifact) = 2
    /\ env.digest = "sha256:d"
    /\ "tool_image_digest" \in DOMAIN artifact[2]
    /\ artifact[1].payload = [name |-> "a.com", run_id |-> "forged"]
    /\ artifact[1].run_id = "run-1"
    /\ artifact[1].timestamp # artifact[2].timestamp

\* C25: in the SDK run, once the artifact was uploaded the stored bytes are the
\* bytes of the artifact file as the closed sink left it, the checksum taken in
\* FINALIZE is the checksum of those bytes, and every results_ready document
\* carries that checksum as events_sha256.
C25_StoredBytesMatchChecksum ==
    env.rt = "sdk" =>
        /\ sha # "none" => (writer = "closed" /\ sha = sha256_file(artifact))
        /\ stored # "none" => (stored = artifact /\ sha = sha256_file(stored))
        /\ \A i \in DOMAIN signals :
              signals[i].kind = "results_ready" =>
                 /\ signals[i].events_sha256 = sha256_file(artifact)
                 /\ outputEnv = "set" => signals[i].events_sha256 = sha256_file(stored)

C25_Witness ==
    /\ env.rt = "sdk" /\ Succeeded /\ outputEnv = "set"
    /\ Len(artifact) = 1 /\ stored = artifact
    /\ ResultsReadySent
    /\ signals[Len(signals)].kind = "results_ready"
    /\ signals[Len(signals)].events_sha256 = sha256_file(stored)

\* the pushed documents that carry the heartbeat metrics
MetricPushes == {i \in DOMAIN signals : "processed_targets" \in DOMAIN signals[i]}

\* C26: the processed_targets values observed in the pushed heartbeat metrics
\* never decrease: every pushed value is at most every later pushed value and
\* at most the current value of the metrics map (SDK run with a custom or a
\* wrapper adapter; legacy generate mode and command mode, httpx adapter included).
C26_ProcessedTargetsNeverDecreases ==
    \A i \in MetricPushes :
        /\ signals[i].processed_targets <= metrics.processed_targets
        /\ \A j \in MetricPushes :
              i < j => signals[i].processed_targets <= signals[j].processed_targets

C26_Witness ==
    /\ env.rt = "legacy" /\ adapter = "httpx" /\ argv = "cmd"
    /\ \E i, j \in MetricPushes :
          /\ i < j
          /\ signals[i].processed_targets = 0
          /\ signals[j].processed_targets = 1

\* C27: in the SDK run a resource whose declared checksum does not match its
\* downloaded bytes has not been unpacked into the resources directory.
C27_MismatchNeverUnpacked ==
    (env.rt = "sdk" /\ res.state = "mismatch") => ~res.extracted

\* the last resource of the manifest that resolves to the file name f (0: none)
LastWriter(f) ==
    LET writers == {i \in DOMAIN cfg.resources : Destination(cfg.resources[i]) = f}
    IN  IF writers = {} THEN 0 ELSE CHOOSE i \in writers : \A j \in writers : j <= i

\* C28: the resources are materialized one at a time in manifest order: a
\* resource is downloaded at most once and only after its predecessor was
\* downloaded and then passed verification; once a resource has failed nothing
\* of a later resource was touched; and when the loop is through, every file of
\* the resources directory holds the content of the last resource that
\* resolves to its name.
C28_ResourcesInManifestOrder ==
    res # NoRes =>
        LET log == res.log
        IN  /\ \A k \in DOMAIN log :
                 /\ log[k][1] \in DOMAIN cfg.resources
                 /\ log[k][1] <= res.next
                 /\ \A m \in DOMAIN log : (log[m] = log[k]) => m = k
                 /\ (log[k][2] = "download" /\ log[k][1] > 1) =>
                       \E d, v \in 1..(k - 1) :
                          /\ d < v
                          /\ log[d] = <<log[k][1] - 1, "download">>
                          /\ log[v] = <<log[k][1] - 1, "prepared">>
            /\ \A f \in FileNames : res.files[f][1] <= res.next
            /\ res.step = "done" =>
                 \A f \in FileNames :
                    res.files[f] = IF LastWriter(f) = 0 THEN NoFile
                                   ELSE <<LastWriter(f), "full">>

C28_Witness ==
    /\ res # NoRes
    /\ res.step = "done"
    /\ Len(cfg.resources) = 2
    /\ Destination(cfg.resources[1]) = Destination(cfg.resources[2])
    /\ cfg.resources[1].filename # cfg.resources[2].filename
    /\ res.files["a.bin"] = <<2, "full">>

\* C29: in a legacy run whose collaborator raised (generate, build_cmd or the
\* spawn of the child), no pushed progress document has the phase finalize.
C29_NoFinalizeAfterFailedRun ==
    (env.rt = "legacy" /\ failedIn = "main") =>
        \A i \in DOMAIN signals :
            "phase" \in DOMAIN signals[i] => signals[i].phase # "finalize"

C31_TickChangesNothingShared ==
    [][ticks' # ticks =>
          /\ ticks' = ticks + 1
          /\ count' = count /\ artifact' = artifact /\ writer' = writer
          /\ emits' = emits /\ metrics' = metrics /\ pc' = pc]_vars

C31_Witness ==
    /\ env.rt = "sdk" /\ ticks = 1 /\ hbThread = "waiting"
    /\ pc = "main" /\ count = 1 /\ metrics.emitted_docs = 1
    /\ Len(signals) > 0
    /\ signals[Len(signals)] = ProgressPayload

\* C32: an SDK run that has finished, on whatever path (success, failure,
\* finalize failure, termination request during cleanup), has put back the
\* SIGTERM disposition that was in place before run was called.
C32_SigtermDispositionRestored ==
    (env.rt = "sdk" /\ Done) => handler = "previous"

\* ------------------------------------------------ one Heartbeat object (SDK)
\* A Heartbeat object on its own: a caller constructs it with some interval and
\* then calls start() and stop() in any order; the reporter threads it creates
\* run beside the caller. Here lines holds the object (the interval passed in,
\* interval_s, _thread as the index of the thread or 0 for None, and how many
\* calls of start and stop were made), hbThread the threads ever created, each
\* with its state, and hbStop the _stop event.

\* the integer interval values a caller passes (heartbeat_seconds is an int)
IntervalValues == (0 - MaxInterval)..MaxInterval

\* mutant of EffectiveInterval: the floor is not applied
EffectiveInterval_NoFloor(v) == IF v = 0 THEN 30 ELSE v

\* self.interval_s = max(5, int(interval_s or 30))
EffectiveInterval(v) ==
    LET given == IF v = 0 THEN 30 ELSE v
    IN  IF given > 5 THEN given ELSE 5

\* mutant of StartReturnsEarly: start does not look at self._thread
StartReturnsEarly_IgnoresThread(url, thread) == ~url

\* start: if not self.url or self._thread: return
StartReturnsEarly(url, thread) == ~url \/ thread # 0

HbObjInit ==
    /\ env \in {e \in Environments : e.rt = "sdk" /\ e.inputsUrl = "set"}
    /\ pc = "H_new"
    /\ InitState

\* Heartbeat(signal_url, base_payload, interval_s=...)
HbObjNew ==
    /\ pc = "H_new"
    /\ \E v \in IntervalValues :
         lines' = [passed |-> v, interval_s |-> EffectiveInterval(v), thread |-> 0,
                   starts |-> 0, stops |-> 0]
    /\ hbThread' = <<>>
    /\ hbStop' = FALSE
    /\ pc' = "H_idle"
    /\ UNCHANGED <<inputVars, workdir, handler, loadVars, sinkVars, metrics, ticks,
                   pushVars, mainCalls, adapter, argv, produces, emits, ctlVars, finVars,
                   sigVars>>

\* start(): returns early, or creates the thread, starts it and keeps it in _thread
HbObjStart ==
    /\ pc = "H_idle"
    /\ lines.starts + lines.stops < MaxCalls
    /\ IF StartReturnsEarly(env.signalUrl, lines.thread)
       THEN /\ lines' = [lines EXCEPT !.starts = @ + 1]
            /\ UNCHANGED hbThread
       ELSE /\ hbThread' = Append(hbThread, "waiting")
            /\ lines' = [lines EXCEPT !.starts = @ + 1, !.thread = Len(hbThread) + 1]
    /\ UNCHANGED <<inputVars, pc, workdir, handler, loadVars, sinkVars, metrics, hbStop,
                   ticks, pushVars, mainCalls, adapter, argv, produces, emits, ctlVars,
                   finVars, sigVars>>

\* mutant of HbObjStopSet: stop() goes on to its send without setting the event
HbObjStopSet_NoSet ==
    /\ pc = "H_idle"
    /\ lines.starts + lines.stops < MaxCalls
    /\ lines' = [lines EXCEPT !.stops = @ + 1]
    /\ pc' = "H_stop_send"
    /\ UNCHANGED <<inputVars, workdir, handler, loadVars, sinkVars, hbVars, pushVars,
                   mainCalls, adapter, argv, produces, emits, ctlVars, finVars, sigVars>>

\* stop(): self._stop.set()
HbObjStopSet ==
    /\ pc = "H_idle"
    /\ lines.starts + lines.stops < MaxCalls
    /\ hbStop' = TRUE
    /\ lines' = [lines EXCEPT !.stops = @ + 1]
    /\ pc' = "H_stop_send"
    /\ UNCHANGED <<inputVars, workdir, handler, loadVars, sinkVars, metrics, hbThread,
                   ticks, pushVars, mainCalls, adapter, argv, produces, emits, ctlVars,
                   finVars, sigVars>>

\* stop(): if self.url: self.send(), and stop returns
HbObjStopSend ==
    /\ pc = "H_stop_send"
    /\ signals' = post_json(env.signalUrl, ProgressPayload)
    /\ pc' = "H_idle"
    /\ UNCHANGED <<inputVars, workdir, handler, loadVars, sinkVars, hbVars, pushLost,
                   mainVars, ctlVars, finVars, sigVars>>

\* _run: self._stop.wait(self.interval_s) timed out with the event unset
HbObjRunWake(i) ==
    /\ pc # "H_new"
    /\ hbThread[i] = "waiting"
    /\ ~hbStop
    /\ ticks < MaxTicks
    /\ hbThread' = [hbThread EXCEPT ![i] = "sending"]
    /\ UNCHANGED <<inputVars, pc, workdir, handler, loadVars, sinkVars, metrics, hbStop,
                   ticks, pushVars, mainVars, ctlVars, finVars, sigVars>>

\* _run: self.send() posts and returns (post_json has a timeout and swallows
\* what the post raises), and the loop goes back to the wait
HbObjRunSend(i) ==
    /\ pc # "H_new"
    /\ hbThread[i] = "sending"
    /\ signals' = post_json(env.signalUrl, ProgressPayload)
    /\ ticks' = ticks + 1
    /\ hbThread' = [hbThread EXCEPT ![i] = "waiting"]
    /\ UNCHANGED <<inputVars, pc, workdir, handler, loadVars, sinkVars, metrics, hbStop,
                   pushLost, mainVars, ctlVars, finVars, sigVars>>

\* _run: the wait returns True because the event is set; the thread ends
HbObjRunExit(i) ==
    /\ pc # "H_new"
    /\ hbThread[i] = "waiting"
    /\ hbStop
    /\ hbThread' = [hbThread EXCEPT ![i] = "exited"]
    /\ UNCHANGED <<inputVars, pc, workdir, handler, loadVars, sinkVars, metrics, hbStop,
                   ticks, pushVars, mainVars, ctlVars, finVars, sigVars>>

\* the steps of the reporter threads
HbObjThreads ==
    \E i \in 1..(MaxCalls + 1) :
        /\ pc # "H_new"
        /\ i <= Len(hbThread)
        /\ (HbObjRunWake(i) \/ HbObjRunSend(i) \/ HbObjRunExit(i))

HbObjNext ==
    \/ HbObjNew \/ HbObjStart \/ HbObjStopSet \/ HbObjStopSend
    \/ HbObjThreads

HbObjSpec == HbObjInit /\ [][HbObjNext]_vars

\* a thread that can take a step takes it: a push returns within its timeout
\* and a wait on a set event returns
HbObjLiveSpec == HbObjSpec /\ WF_vars(HbObjThreads)

\* C33: the interval a Heartbeat uses is at least 5 seconds for every integer
\* passed in, zero and negative values included, and is the value passed in
\* whenever that value is 5 or more.
C33_IntervalFloor ==
    pc \in {"H_idle", "H_stop_send"} =>
        /\ lines.interval_s >= 5
        /\ (lines.passed >= 5 => lines.interval_s = lines.passed)

C33_Witness ==
    /\ pc = "H_idle"
    /\ lines.passed < 0
    /\ lines.interval_s = 5

\* C34: in an SDK run, once Heartbeat.stop() has returned (the event is set and
\* the final heartbeat of stop was sent), the reporter thread pushes no further
\* progress signal, so nothing follows results_ready on a successful run.
C34_NoReporterPushAfterStop ==
    [][(env.rt = "sdk" /\ hbStop /\ pc \notin {"fin_hb_send"} /\ termAt # "finally")
          => ticks' = ticks]_vars

\* ------------------------------------- spawn_and_stream with the child's pipe
\* The child and the pipe between it and spawn_and_stream, made explicit. Here
\* lines holds how many lines the child has yet to write (todo), how many sit in
\* the pipe, written and not yet read (pipe, at most MaxPipe), how many were
\* read, and the child's state and exit code. The child blocks in its write
\* while the pipe is full and exits once it has written everything.
PipeInit ==
    /\ env \in {e \in Environments : e.rt = "sdk" /\ e.inputsUrl = "set" /\ ~e.signalUrl}
    /\ pc = "P_spawn"
    /\ InitState

\* hb.metrics["phase"] = "exec"; process = subprocess.Popen(..., stdout=PIPE)
PipeSpawn ==
    /\ pc = "P_spawn"
    /\ metrics' = SetPhase("exec")
    /\ \E popenErr \in BOOLEAN :
         IF popenErr
         THEN /\ pc' = "P_raised"
              /\ UNCHANGED lines
         ELSE /\ pc' = "P_read"
              /\ \E n \in 0..MaxOutput :
                   lines' = [todo |-> n, pipe |-> 0, read |-> 0,
                             proc |-> "running", returncode |-> <<>>]
    /\ UNCHANGED <<inputVars, workdir, handler, loadVars, sinkVars, hbStop, hbThread,
                   ticks, pushVars, mainCalls, adapter, argv, produces, emits, ctlVars, finVars,
                   sigVars>>

\* the child writes its next line; the write goes through only while the pipe
\* has room
PipeChildWrite ==
    /\ pc \in {"P_read", "P_handler", "P_wait"}
    /\ lines.proc = "running"
    /\ lines.todo > 0
    /\ lines.pipe < MaxPipe
    /\ lines' = [lines EXCEPT !.todo = @ - 1, !.pipe = @ + 1]
    /\ UNCHANGED <<inputVars, pc, workdir, handler, loadVars, sinkVars, hbVars, pushVars,
                   mainCalls, adapter, argv, produces, emits, ctlVars, finVars, sigVars>>

\* the child has written all its output: it exits, which closes its end of the pipe
PipeChildExit ==
    /\ pc \in {"P_read", "P_handler", "P_wait"}
    /\ lines.proc = "running"
    /\ lines.todo = 0
    /\ \E rc \in ReturnCodes :
         lines' = [lines EXCEPT !.proc = "exited", !.returncode = rc]
    /\ UNCHANGED <<inputVars, pc, workdir, handler, loadVars, sinkVars, hbVars, pushVars,
                   mainCalls, adapter, argv, produces, emits, ctlVars, finVars, sigVars>>

\* for raw_line in process.stdout: a line is taken out of the pipe and on_line
\* is called with it
PipeRead ==
    /\ pc = "P_read"
    /\ lines.pipe > 0
    /\ lines' = [lines EXCEPT !.pipe = @ - 1, !.read = @ + 1]
    /\ pc' = "P_handler"
    /\ UNCHANGED <<inputVars, workdir, handler, loadVars, sinkVars, hbVars, pushVars,
                   mainCalls, adapter, argv, produces, emits, ctlVars, finVars, sigVars>>

\* on_line returns
PipeHandlerReturn ==
    /\ pc = "P_handler"
    /\ pc' = "P_read"
    /\ UNCHANGED <<inputVars, workdir, handler, loadVars, sinkVars, hbVars, pushVars,
                   mainVars, ctlVars, finVars, sigVars>>

\* on_line raises: the loop is left and the finally clause is entered
PipeHandlerRaise ==
    /\ pc = "P_handler"
    /\ pending' = "raise"
    /\ pc' = "P_wait"
    /\ UNCHANGED <<inputVars, workdir, handler, loadVars, sinkVars, hbVars, pushVars,
                   mainVars, success, failedIn, retval, outcome, finVars, sigVars>>

\* the pipe is empty and its write end is closed: the for loop ends
PipeEof ==
    /\ pc = "P_read"
    /\ lines.pipe = 0
    /\ lines.proc = "exited"
    /\ pc' = "P_wait"
    /\ UNCHANGED <<inputVars, workdir, handler, loadVars, sinkVars, hbVars, pushVars,
                   mainVars, ctlVars, finVars, sigVars>>

\* process.wait() returns once the child has exited; it reads nothing from the pipe
ChildReaped(proc) == proc = "exited"

\* finally: process.wait(), then the pending exception goes on or the function
\* goes on to its return
PipeWait ==
    /\ pc = "P_wait"
    /\ ChildReaped(lines.proc)
    /\ pc' = IF pending = "raise" THEN "P_raised" ELSE "P_return"
    /\ UNCHANGED <<inputVars, workdir, handler, loadVars, sinkVars, hbVars, pushVars,
                   mainVars, ctlVars, finVars, sigVars>>

\* return process.returncode or 0
PipeReturn ==
    /\ pc = "P_return"
    /\ retval' = ReturnCodeOr0(lines.returncode)
    /\ pc' = "P_done"
    /\ UNCHANGED <<inputVars, workdir, handler, loadVars, sinkVars, hbVars, pushVars,
                   mainVars, success, failedIn, pending, outcome, finVars, sigVars>>

PipeNext ==
    \/ PipeSpawn \/ PipeChildWrite \/ PipeChildExit \/ PipeRead
    \/ PipeHandlerReturn \/ PipeHandlerRaise \/ PipeEof \/ PipeWait \/ PipeReturn

PipeSpec == PipeInit /\ [][PipeNext]_vars

\* the child and the caller each go on whenever they can: the handler returns or
\* raises, a write into a pipe with room completes, a wait on an exited child returns
PipeLiveSpec == PipeSpec /\ WF_vars(PipeNext)

\* C35: spawn_and_stream always finishes, by returning or by raising, given a
\* child that exits once its output is consumed; also when the handler raises
\* while the child still has more to write than the pipe holds.
C35_SpawnAndStreamFinishes == <>(pc \in {"P_done", "P_raised"})

\* the positions at which the collaborator holds emit and a failed write leaves
\* the position (SDK main, legacy generate)
EmitPositions == {"main", "emit_metric", "L_generate", "L_gen_metric"}

\* C36: in both runtimes an event whose type is outside a non-empty PRODUCES is
\* dropped by emit: no line of that type is ever in the artifact, and the sink
\* count and emitted_docs follow the lines written only; with an empty PRODUCES
\* every event emitted is written, whatever its type.
C36_FilteredEventsDropped ==
    /\ produces = "set" => \A i \in DOMAIN artifact : artifact[i] = "produced"
    /\ writer = "open" => (count = Len(artifact) /\ metrics.emitted_docs <= count)
    /\ (produces = "empty" /\ pc \in EmitPositions) =>
           (Len(artifact) = emits /\ count = emits)

C36_Witness ==
    /\ env.rt = "sdk" /\ pc = "main"
    /\ produces = "set" /\ emits = 1
    /\ artifact = <<>> /\ count = 0 /\ metrics.emitted_docs = 0

\* --------------------------- the tool identity on signals and envelopes (SDK)
\* One SDK run followed for the tool name and version only. Here env carries
\* the settings' tool and tool_version, manifest the manifest document's (""
\* when the key is absent or empty), lines the locals signal_payload,
\* resolved_tool and resolved_version of run(), and artifact and signals hold the
\* tool and tool_version of each envelope written and each signal pushed.
ToolNames == {"masscan", "nmap"}

ToolVersions == {"1", "2"}

\* _build_signal_payload: "tool": runtime.tool, "tool_version": runtime.tool_version
BuildSignalPayload(runtime) == [tool |-> runtime.tool, tool_version |-> runtime.tool_version]

\* cfg.tool = cfg.tool or runtime.tool (and the same for tool_version)
OrDefault(value, default) == IF value = "" THEN default ELSE value

IdentityInit ==
    /\ env \in [rt : {"sdk"}, inputsUrl : {"set"}, signalUrl : {TRUE},
                tool : ToolNames, tool_version : ToolVersions]
    /\ pc = "I_setup"
    /\ InitState

\* signal_payload = self._build_signal_payload(runtime); hb = Heartbeat(...);
\* resolved_tool = runtime.tool; resolved_version = runtime.tool_version
IdentitySetup ==
    /\ pc = "I_setup"
    /\ lines' = [signal_payload |-> BuildSignalPayload(env),
                 resolved_tool |-> env.tool, resolved_version |-> env.tool_version]
    /\ pc' = "I_load"
    /\ UNCHANGED <<inputVars, workdir, handler, loadVars, sinkVars, hbVars, pushVars,
                   mainCalls, adapter, argv, produces, emits, ctlVars, finVars, sigVars>>

\* cfg = self._load_manifest(...); cfg.tool = cfg.tool or runtime.tool; ...;
\* resolved_tool = cfg.tool; resolved_version = cfg.tool_version
IdentityLoadManifest ==
    /\ pc = "I_load"
    /\ \E doc \in [tool : ToolNames \cup {""}, tool_version : ToolVersions \cup {""}] :
         /\ manifest' = doc
         /\ lines' = [lines EXCEPT
                        !.resolved_tool = OrDefault(doc.tool, env.tool),
                        !.resolved_version = OrDefault(doc.tool_version, env.tool_version)]
    /\ pc' = "I_writer"
    /\ UNCHANGED <<inputVars, workdir, handler, fetched, targets, cfg, res, corrupt,
                   sinkVars, hbVars, pushVars, mainCalls, adapter, argv, produces, emits,
                   ctlVars, finVars, sigVars>>

\* writer = EventWriter(events_path, context=self._build_event_context(runtime,
\* resolved_tool, resolved_version)); hb.start()
IdentityWriterNew ==
    /\ pc = "I_writer"
    /\ writer' = "open"
    /\ hbThread' = "waiting"
    /\ pc' = "I_main"
    /\ UNCHANGED <<inputVars, workdir, handler, loadVars, count, artifact, closeOk,
                   metrics, hbStop, ticks, pushVars, mainVars, ctlVars, finVars, sigVars>>

\* emit inside main: the envelope carries the writer's context
IdentityEmit ==
    /\ pc = "I_main"
    /\ emits < MaxEmits
    /\ emits' = emits + 1
    /\ artifact' = Append(artifact, [tool |-> lines.resolved_tool,
                                     tool_version |-> lines.resolved_version])
    /\ count' = count + 1
    /\ UNCHANGED <<inputVars, pc, workdir, handler, loadVars, writer, closeOk, hbVars,
                   pushVars, mainCalls, adapter, argv, produces, lines, ctlVars, finVars,
                   sigVars>>

\* the reporter's send: {**base_payload, **metrics, kind, at}
IdentityHeartbeat ==
    /\ pc = "I_main"
    /\ hbThread = "waiting"
    /\ ticks < MaxTicks
    /\ ticks' = ticks + 1
    /\ signals' = Append(signals, lines.signal_payload @@ [kind |-> "progress"])
    /\ UNCHANGED <<inputVars, pc, workdir, handler, loadVars, sinkVars, metrics, hbStop,
                   hbThread, pushLost, mainVars, ctlVars, finVars, sigVars>>

\* the try body raises (manifest resources, writer, main): emit_error(signal_url,
\* signal_payload, ...), then the finally clause without finalize
IdentityRaise ==
    /\ pc \in {"I_writer", "I_main"}
    /\ signals' = Append(signals, lines.signal_payload @@ [kind |-> "error"])
    /\ pc' = "I_stop"
    /\ UNCHANGED <<inputVars, workdir, handler, loadVars, sinkVars, hbVars, pushLost,
                   mainVars, ctlVars, finVars, sigVars>>

\* main returns: success = True
IdentityMainReturn ==
    /\ pc = "I_main"
    /\ success' = TRUE
    /\ pc' = "I_stop"
    /\ UNCHANGED <<inputVars, workdir, handler, loadVars, sinkVars, hbVars, pushVars,
                   mainVars, failedIn, pending, retval, outcome, finVars, sigVars>>

\* finally: hb.stop() sends the final heartbeat; writer.close()
IdentityStop ==
    /\ pc = "I_stop"
    /\ hbStop' = TRUE
    /\ signals' = Append(signals, lines.signal_payload @@ [kind |-> "progress"])
    /\ writer' = IF writer = "open" THEN "closed" ELSE writer
    /\ pc' = IF success /\ writer # "none" THEN "I_finalize" ELSE "I_done"
    /\ UNCHANGED <<inputVars, workdir, handler, loadVars, count, artifact, closeOk,
                   metrics, hbThread, ticks, pushLost, mainVars, ctlVars, finVars, sigVars>>

\* _finalize_success(runtime, writer, events_path, resolved_tool, resolved_version):
\* results_payload has "tool": tool, "tool_version": tool_version
IdentityFinalize ==
    /\ pc = "I_finalize"
    /\ signals' = Append(signals, [tool |-> lines.resolved_tool,
                                   tool_version |-> lines.resolved_version,
                                   kind |-> "results_ready"])
    /\ pc' = "I_done"
    /\ UNCHANGED <<inputVars, workdir, handler, loadVars, sinkVars, hbVars, pushLost,
                   mainVars, ctlVars, finVars, sigVars>>

IdentityNext ==
    \/ IdentitySetup \/ IdentityLoadManifest \/ IdentityWriterNew \/ IdentityEmit
    \/ IdentityHeartbeat \/ IdentityRaise \/ IdentityMainReturn \/ IdentityStop
    \/ IdentityFinalize

IdentitySpec == IdentityInit /\ [][IdentityNext]_vars

\* C37: every signal pushed during one SDK run (heartbeats, the error signal,
\* results_ready) carries the tool and tool_version that the envelopes in the
\* artifact carry, also when the manifest names a tool or version other than
\* the settings'.
C37_SignalsCarryEnvelopeIdentity ==
    \A i \in DOMAIN signals : \A j \in DOMAIN artifact :
        /\ signals[i].tool = artifact[j].tool
        /\ signals[i].tool_version = artifact[j].tool_version

\* C38: for one Heartbeat object at most one reporter thread ever exists,
\* whatever sequence of start() and stop() calls is made on it (start repeated,
\* start after stop, stop without start).
C38_AtMostOneReporterThread ==
    pc \in {"H_idle", "H_stop_send"} => Len(hbThread) <= 1

C38_Witness ==
    /\ pc = "H_idle"
    /\ lines.starts = 2 /\ lines.stops = 1
    /\ Len(hbThread) = 1
    /\ hbThread[1] = "exited"

\* C39: once stop() has been called on a Heartbeat, its reporter thread ends,
\* given that a push in flight returns within its timeout.
C39_ReporterEndsAfterStop ==
    (pc \in {"H_idle", "H_stop_send"} /\ lines.stops > 0)
        ~> (pc # "H_new" /\ \A i \in DOMAIN hbThread : hbThread[i] = "exited")

C39_Witness ==
    /\ pc = "H_idle"
    /\ lines.stops > 0
    /\ ticks = 1
    /\ Len(hbThread) = 1
    /\ hbThread[1] = "exited"

====
